---------------------------- MODULE Spec2Model ----------------------------
(***************************************************************************)
(* A model of the GhostLogic Black Box agent: the collect / normalize /    *)
(* send / seal loop of agent/loop.py, the PID-file lifecycle (start, stop, *)
(* identity verification) and main() of agent/__main__.py, the transport   *)
(* of agent/client.py, scrub_sensitive of agent/log.py,                    *)
(* normalize_telemetry of agent/normalize.py and collect_all of            *)
(* agent/collector.py.                                                     *)
(*                                                                         *)
(* Each part has its own variables and its own specification: Spec runs    *)
(* the loop of run(), StopSpec the PID-file lifecycle, MainSpec one        *)
(* invocation of main(), ExchangeSpec the ingest and seal exchanges,       *)
(* ScrubSpec, NormSpec and CollectSpec the calls of the three functions,   *)
(* CpuSpec the calls of _get_cpu_usage, ListingSpec those of               *)
(* _get_processes and _get_open_ports, JobSpec the external calls of a     *)
(* cycle and of a stop with tools that may hang, InstancesSpec the starts  *)
(* of several instances on one installation.                               *)
(* The actions of a part leave the variables of the others unchanged.      *)
(***************************************************************************)
EXTENDS Integers, Sequences, FiniteSets, TLC

VARIABLES
    \* ---- run() of agent/loop.py ----
    pc,               \* position of run(): the step about to execute
    clock,            \* the monotonic clock of the host (time.monotonic())
    collect_interval, \* config["collect_interval_secs"]
    seal_interval,    \* config["seal_interval_secs"]
    last_seal,        \* local last_seal of run()
    now,              \* local now of run(): the reading of the last seal check
    cycle,            \* local cycle of run()
    jitter,           \* local jitter of run(): the last value drawn
    sleepDur,         \* argument of the last time.sleep call
    exitCause,        \* what propagated out of run(): "none" while it runs
    logs,             \* log records of the current cycle (their kinds)
    \* history of the loop, read by the properties only
    cycleErr,         \* collect/normalize/send raised in the current cycle
    sealOutcome,      \* outcome of the current cycle's seal check
    attempts,         \* number of _seal calls so far
    lastOk,           \* clock reading of the check whose seal last succeeded
    draws,            \* number of random.uniform calls so far
    sleeps,           \* number of time.sleep calls that returned
    \* ---- the PID-file lifecycle of agent/__main__.py ----
    platform,         \* _SYSTEM, and whether the host has /proc
    pidFile,          \* the PID file: [present, raw], raw its text
    procs,            \* the host's process table: PID -> program
    stops,            \* number of _stop_agent calls so far
    \* what the last _stop_agent call did
    stopMsg,          \* the message it printed
    stopRaised,       \* the exception that left it, "none" if it returned
    stopPid,          \* the PID it parsed from the file
    verified,         \* what _is_our_agent answered
    termReqs,         \* the PIDs it asked the OS to terminate, in order
    victim,           \* the program that ran at stopPid when it was signalled
    \* ---- one invocation of main() of agent/__main__.py ----
    args,             \* the parsed command line: [stop, foreground]
    tenant_key,       \* whether config["tenant_key"] is set
    registered_now,   \* local registered_now of main()
    mpc,              \* position of main()
    mPid,             \* os.getpid() of the process running main()
    childPid,         \* what _spawn_background returned, 0 before it
    loopEnd,          \* how run() ended, "none" while it has not
    exitCode,         \* how the process ended, "none" while it runs
    removes,          \* number of _remove_pid calls main() made
    \* ---- one call of scrub_sensitive of agent/log.py ----
    msg,              \* argument msg
    scrub_key,        \* argument tenant_key
    scrubbed,         \* the string returned
    scrub_done,       \* whether the call has returned
    \* ---- the ingest and seal exchanges of agent/loop.py and client.py ----
    base_url,         \* config["blackbox_url"]
    exch_key,         \* config["tenant_key"]
    exchanges,        \* number of exchanges made so far
    \* the last exchange
    exch,             \* "ingest", "seal", or "none" before the first
    response,         \* what the server and the network did
    headers,          \* the headers of the request that was built
    post_raised,      \* the exception that left _post, "none" if it returned
    post_result,      \* the value _post returned
    records,          \* the log records emitted while handling it, in order
    \* ---- calls of normalize_telemetry of agent/normalize.py ----
    snapshot,         \* argument raw
    agent_id,         \* argument agent_id
    source_id,        \* argument source_id
    wall,             \* the host's wall clock (datetime.now)
    uuids,            \* number of uuid.uuid4() values drawn so far
    norm_calls,       \* number of calls made so far, all with these arguments
    batch,            \* the payload the last call returned
    prev_batch,       \* the payload the call before it returned
    \* ---- one call of collect_all of agent/collector.py ----
    collector_system, \* _SYSTEM of agent/collector.py
    failing,          \* how each probe's source fails during the call
    collected,        \* the snapshot returned
    collect_done,     \* whether the call has returned
    \* ---- calls of _get_cpu_usage of agent/collector.py on Linux ----
    prev_cpu_sample,  \* global _prev_cpu_sample: <<idle, total>>, <<>> if None
    cpu_calls,        \* number of calls made so far
    \* the last call
    cpu_read,         \* what it read from /proc/stat: <<idle, total>> or <<>>
    cpu_before,       \* _prev_cpu_sample when it was entered
    cpu_percent,      \* what it returned: <<tenths of a percent>>, <<>> if None
    \* ---- calls of _get_processes and _get_open_ports of collector.py ----
    listing_system,   \* _SYSTEM of agent/collector.py
    \* the last call
    tool,             \* the listing asked for: "ps", "ports", "none" before
    tool_output,      \* the lines of result.stdout
    listing,          \* the list returned
    \* ---- the external calls of a cycle of run() and of _stop_agent ----
    job_system,       \* _SYSTEM
    job,              \* what runs: "cycle", "stop", or "none"
    pending,          \* the external calls the job has still to make
    waiting,          \* the call being waited for: "no", "running", "hung"
    expired,          \* number of timeouts that expired during the job
    job_end,          \* how the last job ended: "sleep", "return", "raise"
    jobs,             \* number of jobs started so far
    \* ---- starts of the agent on one installation (main()) ----
    parent,           \* per instance, the main() that spawns it: its position
    child             \* per instance, the main() that runs its loop: position

lvars == <<pc, clock, collect_interval, seal_interval, last_seal, now, cycle,
           jitter, sleepDur, exitCause, logs, cycleErr, sealOutcome, attempts,
           lastOk, draws, sleeps>>

pvars == <<platform, pidFile, procs, stops, stopMsg, stopRaised, stopPid,
           verified, termReqs, victim>>

mvars == <<args, tenant_key, registered_now, mpc, mPid, childPid, loopEnd,
           exitCode, removes>>

svars == <<msg, scrub_key, scrubbed, scrub_done>>

tvars == <<base_url, exch_key, exchanges, exch, response, headers,
           post_raised, post_result, records>>

nvars == <<snapshot, agent_id, source_id, wall, uuids, norm_calls, batch,
           prev_batch>>

cvars == <<collector_system, failing, collected, collect_done>>

uvars == <<prev_cpu_sample, cpu_calls, cpu_read, cpu_before, cpu_percent>>

ovars == <<listing_system, tool, tool_output, listing>>

hvars == <<job_system, job, pending, waiting, expired, job_end, jobs>>

ivars == <<parent, child>>

(* The parts added to the functions' *)
kvars == <<uvars, ovars, hvars, ivars>>

fvars == <<svars, tvars, nvars, cvars, kvars>>

(* main() and the four functions called on their own *)
gvars == <<mvars, svars, tvars, nvars, cvars>>

(* Everything but the loop and the lifecycle *)
xvars == <<mvars, fvars>>

vars == <<lvars, pvars, xvars>>

-----------------------------------------------------------------------------
(* Bounds of the model *)

MaxClock == 6
MaxCycles == 3
MaxPid == 2
MaxStops == 2
MaxMsgLen == 3
MaxKeyLen == 2
MaxExchanges == 2
MaxItems == 1
MaxWall == 2
MaxNormCalls == 2
MaxCpuCalls == 3
MaxMixed == 2
MaxLines == 21
MaxJobs == 2

(* Configurations explored: collect_interval_secs and seal_interval_secs   *)
(* in clock units.  validate_config asks collect_interval_secs >= 1.       *)
CollectIntervals == {1, 20}
SealIntervals == {2, 3}

-----------------------------------------------------------------------------
(* run(): agent/loop.py *)

(* Outcomes of the calls run() makes.  A call either returns or raises an  *)
(* Exception; KeyboardInterrupt is a BaseException and is the Interrupt    *)
(* action below.                                                           *)
CallOutcomes == {"ok", "raise"}

(* client._post returns the parsed JSON body, which is whatever JSON the   *)
(* server sent: a dict with a status, or a value that is no dict (then     *)
(* resp.get raises AttributeError in the caller).                          *)
IngestResults == {"ingested", "error", "other", "nondict"}
SealResults == {"sealed", "error", "nondict"}

(* The state of run() on reaching `while True` for the first time. *)
LoopInit ==
    /\ pc = "refresh"
    /\ clock \in 0..1
    /\ collect_interval \in CollectIntervals
    /\ seal_interval \in SealIntervals
    /\ last_seal = clock
    /\ now = clock
    /\ cycle = 0
    /\ jitter = 0
    /\ sleepDur = 0
    /\ exitCause = "none"
    /\ logs = {}
    /\ cycleErr = FALSE
    /\ sealOutcome = "none"
    /\ attempts = 0
    /\ lastOk = clock
    /\ draws = 0
    /\ sleeps = 0


(* The host's monotonic clock moves on at any moment, never backwards.     *)
(* Its readings are the only thing run() learns of time: the model lets    *)
(* any non-decreasing sequence of readings happen, whatever the steps and  *)
(* the sleeps last.                                                        *)
Tick ==
    /\ pc # "stopped"
    /\ clock < MaxClock
    /\ clock' = clock + 1
    /\ UNCHANGED <<pc, collect_interval, seal_interval, last_seal, now, cycle,
                   jitter, sleepDur, exitCause, logs, cycleErr, sealOutcome,
                   attempts, lastOk, draws, sleeps>>
    /\ UNCHANGED pvars
    /\ UNCHANGED xvars

(* `if now - last_seal >= seal_interval` *)
SealDueStrict(n, last, interval) == n - last > interval
SealDue(n, last, interval) == n - last >= interval

(* _seal raises exactly when client.post_seal raises or hands back a value *)
(* without .get; an {"status": "error"} result is logged and _seal returns *)
SealRaises(result) == result \in {"nondict", "raise"}

(* try: _seal(...); last_seal = now / except Exception: log.error(...)     *)
NextLastSealNever(raised, n, last) == last
NextLastSeal(raised, n, last) == IF raised THEN last ELSE n

(* `except Exception as e: log.error("Collection cycle %d failed ...")`:   *)
(* where run() continues after _collect_and_send raised                    *)
CycleErrorPcUncaught == "stopped"
CycleErrorPc == "sealcheck"

(* `random.uniform(0, collect_interval * 0.1)`: the values of the grid     *)
(* that lie in [0, collect_interval / 10]                                  *)
JitterRangeWide(ci) == 0..(ci \div 5)
JitterRange(ci) == 0..(ci \div 10)

(* `time.sleep(collect_interval + jitter)` *)
SleepArg(ci, j) == ci + j

(* `cycle += 1` *)
CycleStepTwo(c) == c + 2
CycleStep(c) == c + 1

(* Top of `while True`: cycle += 1, hostname = socket.gethostname().  The  *)
(* call stands outside every try of run(): an OSError it raises leaves     *)
(* run().                                                                  *)
Refresh ==
    /\ pc = "refresh"
    /\ cycle < MaxCycles
    /\ cycle' = CycleStep(cycle)
    /\ cycleErr' = FALSE
    /\ sealOutcome' = "none"
    /\ logs' = {}
    /\ \E o \in CallOutcomes :
          IF o = "ok"
          THEN pc' = "collect" /\ UNCHANGED exitCause
          ELSE pc' = "stopped" /\ exitCause' = "OSError"
    /\ UNCHANGED <<clock, collect_interval, seal_interval, last_seal, now,
                   jitter, sleepDur, attempts, lastOk, draws, sleeps>>
    /\ UNCHANGED pvars
    /\ UNCHANGED xvars

(* A step of _collect_and_send raised an Exception: it unwinds to run()'s  *)
(* handler, which logs it.                                                 *)
CycleFails ==
    /\ cycleErr' = TRUE
    /\ logs' = logs \cup {"cycle_failed"}
    /\ pc' = CycleErrorPc

(* raw = collector.collect_all() *)
Collect ==
    /\ pc = "collect"
    /\ \E o \in CallOutcomes :
          IF o = "ok"
          THEN pc' = "normalize" /\ UNCHANGED <<cycleErr, logs>>
          ELSE CycleFails
    /\ UNCHANGED <<clock, collect_interval, seal_interval, last_seal, now,
                   cycle, jitter, sleepDur, exitCause, sealOutcome, attempts,
                   lastOk, draws, sleeps>>
    /\ UNCHANGED pvars
    /\ UNCHANGED xvars

(* payload = normalize.normalize_telemetry(...); log.debug(...) *)
Normalize ==
    /\ pc = "normalize"
    /\ \E o \in CallOutcomes :
          IF o = "ok"
          THEN pc' = "send" /\ logs' = logs \cup {"collected"}
                            /\ UNCHANGED cycleErr
          ELSE CycleFails
    /\ UNCHANGED <<clock, collect_interval, seal_interval, last_seal, now,
                   cycle, jitter, sleepDur, exitCause, sealOutcome, attempts,
                   lastOk, draws, sleeps>>
    /\ UNCHANGED pvars
    /\ UNCHANGED xvars

(* resp = client.post_ingest(...) and the logging of its status *)
Send ==
    /\ pc = "send"
    /\ \E r \in IngestResults \cup {"raise"} :
          CASE r = "ingested" ->
                 pc' = "sealcheck" /\ logs' = logs \cup {"sent"}
                                   /\ UNCHANGED cycleErr
            [] r \in {"error", "other"} ->
                 pc' = "sealcheck" /\ logs' = logs \cup {"status_warning"}
                                   /\ UNCHANGED cycleErr
            [] OTHER -> CycleFails
    /\ UNCHANGED <<clock, collect_interval, seal_interval, last_seal, now,
                   cycle, jitter, sleepDur, exitCause, sealOutcome, attempts,
                   lastOk, draws, sleeps>>
    /\ UNCHANGED pvars
    /\ UNCHANGED xvars

(* now = time.monotonic(); if due: try _seal, last_seal = now / except     *)
SealCheck ==
    /\ pc = "sealcheck"
    /\ now' = clock
    /\ IF SealDue(clock, last_seal, seal_interval)
       THEN \E r \in SealResults \cup {"raise"} :
               /\ attempts' = attempts + 1
               /\ sealOutcome' = r
               /\ last_seal' = NextLastSeal(SealRaises(r), clock, last_seal)
               /\ lastOk' = IF r = "sealed" THEN clock ELSE lastOk
               /\ logs' = logs \cup
                     {CASE r = "sealed" -> "seal_complete"
                        [] r = "error" -> "seal_warning"
                        [] OTHER -> "seal_failed"}
       ELSE /\ sealOutcome' = "notdue"
            /\ UNCHANGED <<attempts, last_seal, lastOk, logs>>
    /\ pc' = "sleep"
    /\ UNCHANGED <<clock, collect_interval, seal_interval, cycle, jitter,
                   sleepDur, exitCause, cycleErr, draws, sleeps>>
    /\ UNCHANGED pvars
    /\ UNCHANGED xvars

(* jitter = random.uniform(...); time.sleep(collect_interval + jitter) is  *)
(* entered                                                                 *)
SleepCall ==
    /\ pc = "sleep"
    /\ \E j \in JitterRange(collect_interval) :
          /\ jitter' = j
          /\ sleepDur' = SleepArg(collect_interval, j)
    /\ draws' = draws + 1
    /\ pc' = "sleeping"
    /\ UNCHANGED <<clock, collect_interval, seal_interval, last_seal, now,
                   cycle, exitCause, logs, cycleErr, sealOutcome, attempts,
                   lastOk, sleeps>>
    /\ UNCHANGED pvars
    /\ UNCHANGED xvars

(* time.sleep returns: back to the top of `while True` *)
SleepReturn ==
    /\ pc = "sleeping"
    /\ sleeps' = sleeps + 1
    /\ pc' = "refresh"
    /\ UNCHANGED <<clock, collect_interval, seal_interval, last_seal, now,
                   cycle, jitter, sleepDur, exitCause, logs, cycleErr,
                   sealOutcome, attempts, lastOk, draws>>
    /\ UNCHANGED pvars
    /\ UNCHANGED xvars

(* KeyboardInterrupt is no Exception: neither `except Exception` of run()  *)
(* catches it, wherever it is raised.                                      *)
Interrupt ==
    /\ pc # "stopped"
    /\ pc' = "stopped"
    /\ exitCause' = "KeyboardInterrupt"
    /\ UNCHANGED <<clock, collect_interval, seal_interval, last_seal, now,
                   cycle, jitter, sleepDur, logs, cycleErr, sealOutcome,
                   attempts, lastOk, draws, sleeps>>
    /\ UNCHANGED pvars
    /\ UNCHANGED xvars

Next ==
    \/ Tick
    \/ Refresh
    \/ Collect
    \/ Normalize
    \/ Send
    \/ SealCheck
    \/ SleepCall
    \/ SleepReturn
    \/ Interrupt


-----------------------------------------------------------------------------
(* Text.  A string is the sequence of its characters, so that substring    *)
(* search, lower-casing and integer parsing are computed as Python         *)
(* computes them.                                                          *)

(* What the host shows of a process: the command lines found in           *)
(* /proc/<pid>/cmdline, the image names tasklist prints, and the line it   *)
(* prints when no task matches                                             *)
HostText ==
    [agent_cmdline |->
        <<"p", "y", "t", "h", "o", "n", "3", " ", "-", "m", " ", "a", "g",
          "e", "n", "t", " ", "-", "-", "f", "o", "r", "e", "g", "r", "o",
          "u", "n", "d">>,
     vim_cmdline |->
        <<"/", "u", "s", "r", "/", "b", "i", "n", "/", "v", "i", "m", " ",
          "s", "o", "m", "e", "f", "i", "l", "e", ".", "t", "x", "t">>,
     ssh_agent_cmdline |->
        <<"s", "s", "h", "-", "a", "g", "e", "n", "t", " ", "-", "s">>,
     other_py_cmdline |->
        <<"p", "y", "t", "h", "o", "n", "3", " ", "a", "p", "p", ".", "p",
          "y">>,
     agent_image |->
        <<"P", "y", "t", "h", "o", "n", ".", "e", "x", "e">>,
     notepad_image |->
        <<"n", "o", "t", "e", "p", "a", "d", ".", "e", "x", "e">>,
     ssh_agent_image |->
        <<"s", "s", "h", "-", "a", "g", "e", "n", "t", ".", "e", "x", "e">>,
     no_task_line |->
        <<"I", "N", "F", "O", ":", " ", "N", "o", " ", "t", "a", "s", "k",
          "s", " ", "a", "r", "e", " ", "r", "u", "n", "n", "i", "n", "g">>]

(* The letters str.lower() maps, and what it maps them to *)
Letters ==
    [upper |->
        <<"A", "B", "C", "D", "E", "F", "G", "H", "I", "J", "K", "L", "M",
          "N", "O", "P", "Q", "R", "S", "T", "U", "V", "W", "X", "Y", "Z">>,
     lower |->
        <<"a", "b", "c", "d", "e", "f", "g", "h", "i", "j", "k", "l", "m",
          "n", "o", "p", "q", "r", "s", "t", "u", "v", "w", "x", "y", "z">>]

(* The substrings _is_our_agent looks for *)
Needle ==
    [agent |->
        <<"a", "g", "e", "n", "t">>,
     python |->
        <<"p", "y", "t", "h", "o", "n">>,
     ghostlogic |->
        <<"g", "h", "o", "s", "t", "l", "o", "g", "i", "c">>]

Digits == <<"0", "1", "2", "3", "4", "5", "6", "7", "8", "9">>
Whitespace == {" ", "\n", "\t"}

(* `needle in text` *)
Contains(text, needle) ==
    \E i \in 1..(Len(text) - Len(needle) + 1) :
        SubSeq(text, i, i + Len(needle) - 1) = needle

(* str.lower() *)
LowerChar(c) ==
    IF \E i \in 1..Len(Letters.upper) : Letters.upper[i] = c
    THEN Letters.lower[CHOOSE i \in 1..Len(Letters.upper) :
                          Letters.upper[i] = c]
    ELSE c
Lower(text) == [i \in 1..Len(text) |-> LowerChar(text[i])]

(* str.strip() *)
RECURSIVE LStrip(_)
LStrip(text) ==
    IF text # <<>> /\ Head(text) \in Whitespace THEN LStrip(Tail(text))
    ELSE text
RECURSIVE RStrip(_)
RStrip(text) ==
    IF text # <<>> /\ text[Len(text)] \in Whitespace
    THEN RStrip(SubSeq(text, 1, Len(text) - 1))
    ELSE text
Strip(text) == LStrip(RStrip(text))

(* str(n) for an integer n *)
DigitOf(d) == Digits[d + 1]
RECURSIVE NatStr(_)
NatStr(n) == IF n < 10 THEN <<DigitOf(n)>>
             ELSE NatStr(n \div 10) \o <<DigitOf(n % 10)>>
Str(n) == IF n < 0 THEN <<"-">> \o NatStr(-n) ELSE NatStr(n)

(* int(text): an optional sign and one or more decimal digits, after       *)
(* surrounding whitespace; anything else raises ValueError (ok = FALSE)    *)
IsDigit(c) == \E i \in 1..Len(Digits) : Digits[i] = c
DigitVal(c) == (CHOOSE i \in 1..Len(Digits) : Digits[i] = c) - 1
RECURSIVE NatVal(_)
NatVal(ds) == IF ds = <<>> THEN 0
              ELSE 10 * NatVal(SubSeq(ds, 1, Len(ds) - 1)) + DigitVal(ds[Len(ds)])
ParseInt(text) ==
    LET t == Strip(text)
        signed == t # <<>> /\ Head(t) \in {"-", "+"}
        ds == IF signed THEN Tail(t) ELSE t
        ok == ds # <<>> /\ \A i \in 1..Len(ds) : IsDigit(ds[i])
    IN  [ok |-> ok,
         val |-> IF ~ok THEN 0
                 ELSE IF signed /\ Head(t) = "-" THEN -NatVal(ds) ELSE NatVal(ds)]

-----------------------------------------------------------------------------
(* agent/log.py *)

(* The replacement text of scrub_sensitive *)
Redacted == <<"[", "R", "E", "D", "A", "C", "T", "E", "D", "]">>

(* str.replace(old, new) for a non-empty old: the occurrences of old are   *)
(* found from left to right, without overlap, and each becomes new         *)
RECURSIVE Replace(_, _, _)
Replace(text, old, new) ==
    IF Len(text) < Len(old) THEN text
    ELSE IF SubSeq(text, 1, Len(old)) = old
         THEN new \o Replace(SubSeq(text, Len(old) + 1, Len(text)), old, new)
         ELSE <<Head(text)>> \o Replace(Tail(text), old, new)

(* scrub_sensitive(msg, tenant_key) *)
ScrubSensitive(text, key) ==
    IF key # <<>> /\ Contains(text, key)
    THEN Replace(text, key, Redacted)
    ELSE text

(* The characters of the messages and keys explored: a character of the    *)
(* replacement text, its opening bracket, and one that it does not hold    *)
ScrubChars == {"E", "[", "k"}

(* All strings over the given characters of at most the given length *)
RECURSIVE Strings(_, _)
Strings(chars, n) ==
    IF n = 0 THEN {<<>>}
    ELSE LET shorter == Strings(chars, n - 1)
         IN  shorter \cup {<<c>> \o t : c \in chars,
                                        t \in {u \in shorter : Len(u) = n - 1}}

(* The arguments of the call of scrub_sensitive; a specification that does *)
(* not model the call (on = FALSE) fixes them.                             *)
ScrubInit(on) ==
    /\ msg \in (IF on THEN Strings(ScrubChars, MaxMsgLen) ELSE {<<>>})
    /\ scrub_key \in (IF on THEN Strings(ScrubChars, MaxKeyLen) ELSE {<<>>})
    /\ scrubbed = <<>>
    /\ scrub_done = FALSE

(* The call of scrub_sensitive *)
Scrub ==
    /\ ~scrub_done
    /\ scrubbed' = ScrubSensitive(msg, scrub_key)
    /\ scrub_done' = TRUE
    /\ UNCHANGED <<msg, scrub_key>>
    /\ UNCHANGED <<lvars, pvars, mvars, tvars, nvars, cvars, kvars>>

-----------------------------------------------------------------------------
(* agent/client.py and the handling of its results in agent/loop.py *)

(* The string literals of agent/client.py: the two paths, the status of an *)
(* error result, header values and the pieces of its log messages         *)
ClientText ==
    [ingest_path |->
        <<"/", "a", "p", "i", "/", "v", "1", "/", "i", "n", "g", "e", "s",
          "t">>,
     seal_path |->
        <<"/", "a", "p", "i", "/", "v", "1", "/", "s", "e", "a", "l">>,
     error |->
        <<"e", "r", "r", "o", "r">>,
     app_json |->
        <<"a", "p", "p", "l", "i", "c", "a", "t", "i", "o", "n", "/", "j",
          "s", "o", "n">>,
     bearer |->
        <<"B", "e", "a", "r", "e", "r", " ">>,
     non_json_detail |->
        <<"n", "o", "n", "-", "J", "S", "O", "N", " ", "r", "e", "s", "p",
          "o", "n", "s", "e", ":", " ">>,
     non_json |->
        <<"N", "o", "n", "-", "J", "S", "O", "N", " ", "r", "e", "s", "p",
          "o", "n", "s", "e", " ", "f", "r", "o", "m", " ">>,
     http |->
        <<"H", "T", "T", "P", " ">>,
     from |->
        <<" ", "f", "r", "o", "m", " ">>,
     colon |->
        <<":", " ">>,
     connection |->
        <<"C", "o", "n", "n", "e", "c", "t", "i", "o", "n", " ", "f", "a",
          "i", "l", "e", "d", " ", "t", "o", " ">>,
     request |->
        <<"R", "e", "q", "u", "e", "s", "t", " ", "f", "a", "i", "l", "e",
          "d", " ", "t", "o", " ">>,
     unknown_url |->
        <<"u", "n", "k", "n", "o", "w", "n", " ", "u", "r", "l", " ", "t",
          "y", "p", "e", ":", " ">>]

(* The string literals of _collect_and_send, _seal and the handlers of     *)
(* run(): the statuses they compare with, the pieces of their log         *)
(* messages ("sent" without its counts), and the text of the              *)
(* AttributeError of resp.get on a value that is no dict                   *)
LoopText ==
    [ingested |->
        <<"i", "n", "g", "e", "s", "t", "e", "d">>,
     error |->
        <<"e", "r", "r", "o", "r">>,
     sealed |->
        <<"s", "e", "a", "l", "e", "d">>,
     collection |->
        <<"C", "o", "l", "l", "e", "c", "t", "i", "o", "n", " ", "c", "y",
          "c", "l", "e", " ">>,
     cycle |->
        <<"C", "y", "c", "l", "e", " ">>,
     sent |->
        <<":", " ", "s", "e", "n", "t", " ", "e", "v", "e", "n", "t", "s">>,
     status |->
        <<":", " ", "s", "t", "a", "t", "u", "s", "=">>,
     detail |->
        <<" ", "d", "e", "t", "a", "i", "l", "=">>,
     failed |->
        <<" ", "f", "a", "i", "l", "e", "d", ":", " ">>,
     sealing |->
        <<"S", "e", "a", "l", "i", "n", "g", " ", "c", "a", "p", "s", "u",
          "l", "e", ".", ".", ".">>,
     seal_response |->
        <<"S", "e", "a", "l", " ", "r", "e", "s", "p", "o", "n", "s", "e",
          ":", " ">>,
     dash |->
        <<" ", "-", " ">>,
     seal_complete |->
        <<"S", "e", "a", "l", " ", "c", "o", "m", "p", "l", "e", "t", "e",
          ":", " ", "s", "t", "a", "t", "u", "s", "=">>,
     capsule |->
        <<" ", "c", "a", "p", "s", "u", "l", "e", "=">>,
     seal_failed |->
        <<"S", "e", "a", "l", " ", "f", "a", "i", "l", "e", "d", ":", " ">>,
     no_get |->
        <<"'", "l", "i", "s", "t", "'", " ", "o", "b", "j", "e", "c", "t",
          " ", "h", "a", "s", " ", "n", "o", " ", "a", "t", "t", "r", "i",
          "b", "u", "t", "e", " ", "'", "g", "e", "t", "'">>]

(* Tenant keys explored: none, and two that share nothing with the         *)
(* replacement text of scrub_sensitive                                     *)
TenantKeys == {<<>>, <<"k", "1">>, <<"s", "3", "c">>}

(* Base URLs explored: one with a scheme, as DEFAULT_CONFIG's blackbox_url *)
(* has, with and without a trailing slash; one given as host:port and one  *)
(* as a bare host name, both of which validate_config accepts              *)
BaseUrls ==
    { <<"h", "t", "t", "p", ":", "/", "/", "s">>,
      <<"h", "t", "t", "p", ":", "/", "/", "s", "/">>,
      <<"s", ":", "8", "/">>,
      <<"s">> }

(* text[:n] *)
Truncate(text, n) == SubSeq(text, 1, IF Len(text) < n THEN Len(text) ELSE n)

BodyLogLimit == 500
DetailLimit == 200

(* base_url.rstrip('/') *)
RECURSIVE RStripSlash(_)
RStripSlash(text) ==
    IF text # <<>> /\ text[Len(text)] = "/"
    THEN RStripSlash(SubSeq(text, 1, Len(text) - 1))
    ELSE text

(* f"{base_url.rstrip('/')}/api/v1/ingest" and the same for seal *)
Url(base, path) == RStripSlash(base) \o path

(* urllib.request.Request(url): the URL type is what stands before the     *)
(* first colon, if that is non-empty and holds no slash; a URL without a   *)
(* type raises ValueError("unknown url type")                              *)
HasUrlType(url) ==
    \E i \in 2..Len(url) :
        /\ url[i] = ":"
        /\ \A j \in 1..(i - 1) : url[j] \notin {"/", ":"}

(* The message of that ValueError, and of the URLError urlopen raises for  *)
(* a type it has no handler for                                            *)
UnknownUrl(url) == ClientText.unknown_url \o <<"'">> \o url \o <<"'">>

(* The URL type: the text before the first colon *)
UrlType(url) ==
    LET first == CHOOSE i \in 1..Len(url) :
                    url[i] = ":" /\ \A j \in 1..(i - 1) : url[j] # ":"
    IN  SubSeq(url, 1, first - 1)

(* The headers _post adds to the request *)
RequestHeadersBearerOnly(key) ==
    {<<"Content-Type", ClientText.app_json>>} \cup
    (IF key # <<>>
     THEN {<<"Authorization", ClientText.bearer \o key>>}
     ELSE {})

RequestHeaders(key) ==
    {<<"Content-Type", ClientText.app_json>>} \cup
    (IF key # <<>>
     THEN {<<"Authorization", ClientText.bearer \o key>>, <<"X-API-Key", key>>}
     ELSE {})

(* What the server and the network may do with a request.  kind "json" is  *)
(* a 2xx response whose body is a JSON object with the given status,       *)
(* detail and capsule_id; "nondict" a 2xx response whose body is JSON but  *)
(* no object; "nonjson" a 2xx response whose body is no JSON; "http" an    *)
(* HTTPError with a code and a body; "urlerror" a URLError with a reason   *)
(* (refused, unresolved, timed out); "exception" any other Exception of    *)
(* urlopen or read.  Every text is the server's to choose, and a server    *)
(* may repeat in it the key the request carried.                           *)
ServerTexts(key) ==
    { <<"o", "o", "p", "s">>,
      <<"b", "a", "d", " ", "k", "e", "y", " ">> \o key }

Response(kind, code, status, text, capsule) ==
    [kind |-> kind, code |-> code, status |-> status, text |-> text,
     capsule |-> capsule]

Responses(key) ==
    {Response("json", 200, st, tx, cp) :
        st \in {LoopText.ingested, LoopText.sealed, ClientText.error} \cup
               ServerTexts(key),
        tx \in ServerTexts(key), cp \in ServerTexts(key)}
    \cup {Response("nondict", 200, <<>>, <<>>, <<>>)}
    \cup {Response("nonjson", 200, <<>>, tx, <<>>) : tx \in ServerTexts(key)}
    \cup {Response("http", code, <<>>, tx, <<>>) :
             code \in {401, 500}, tx \in ServerTexts(key)}
    \cup {Response("urlerror", 0, <<>>, tx, <<>>) : tx \in ServerTexts(key)}
    \cup {Response("exception", 0, <<>>, tx, <<>>) : tx \in ServerTexts(key)}

(* urlopen reaches a server only for a type it has a handler for; for any  *)
(* other type it raises URLError at once.                                  *)
Outcomes(url, key) ==
    IF HasUrlType(url) /\ UrlType(url) # <<"h", "t", "t", "p">>
    THEN {Response("urlerror", 0, <<>>, UnknownUrl(url), <<>>)}
    ELSE Responses(key)

FailureKinds == {"nonjson", "http", "urlerror", "exception"}

(* The values _post returns: a JSON object (its status, detail, capsule_id *)
(* and http_code entries) or another JSON value                            *)
Dict(status, detail, capsule, code) ==
    [kind |-> "dict", status |-> status, detail |-> detail,
     capsule |-> capsule, http_code |-> code]
NonDict == [kind |-> "nondict", status |-> <<>>, detail |-> <<>>,
            capsule |-> <<>>, http_code |-> 0]
NoResult == [kind |-> "none", status |-> <<>>, detail |-> <<>>,
             capsule |-> <<>>, http_code |-> 0]

ErrorResult(detail, code) == Dict(ClientText.error, detail, <<>>, code)

(* A log record: the logger that emitted it and its formatted message *)
Record(logger, text) == [logger |-> logger, text |-> text]

(* _post(url, tenant_key, payload, demo_mode) against a server that        *)
(* answers r: the exception that leaves it, the value it returns, the      *)
(* headers of the request and the records it logs.  Request(...) and the   *)
(* headers stand before the try statement.                                 *)
Post(url, key, r) ==
    IF ~HasUrlType(url)
    THEN [raised |-> "ValueError", headers |-> {}, result |-> NoResult,
          records |-> <<>>]
    ELSE
    LET answer ==
          CASE r.kind = "json" ->
                 <<Dict(r.status, r.text, r.capsule, 0), <<>>>>
            [] r.kind = "nondict" -> <<NonDict, <<>>>>
            [] r.kind = "nonjson" ->
                 <<ErrorResult(ClientText.non_json_detail \o Truncate(r.text, DetailLimit),
                               0),
                   <<Record("client", ClientText.non_json \o url \o ClientText.colon \o
                                      Truncate(r.text, BodyLogLimit))>>>>
            [] r.kind = "http" ->
                 <<ErrorResult(Truncate(r.text, BodyLogLimit), r.code),
                   <<Record("client", ClientText.http \o Str(r.code) \o ClientText.from \o
                                      url \o ClientText.colon \o
                                      Truncate(r.text, BodyLogLimit))>>>>
            [] r.kind = "urlerror" ->
                 <<ErrorResult(r.text, 0),
                   <<Record("client", ClientText.connection \o url \o ClientText.colon \o
                                      r.text)>>>>
            [] r.kind = "exception" ->
                 <<ErrorResult(r.text, 0),
                   <<Record("client", ClientText.request \o url \o ClientText.colon \o
                                      r.text)>>>>
    IN  [raised |-> "none", headers |-> RequestHeaders(key),
         result |-> answer[1], records |-> answer[2]]

(* _collect_and_send from `resp = client.post_ingest(...)` on, and the     *)
(* handler of run() around it: the records the loop logs for the result    *)
(* of cycle n.  resp.get on a value that is no object raises               *)
(* AttributeError, which the handler of run() logs like the exception of   *)
(* _post.                                                                  *)
IngestRecords(n, url, key, posted) ==
    IF posted.raised # "none"
    THEN <<Record("loop", LoopText.collection \o Str(n) \o LoopText.failed \o
                          UnknownUrl(url))>>
    ELSE IF posted.result.kind = "nondict"
    THEN <<Record("loop", LoopText.collection \o Str(n) \o LoopText.failed \o
                          LoopText.no_get)>>
    ELSE IF posted.result.status = LoopText.ingested
    THEN <<Record("loop", LoopText.cycle \o Str(n) \o LoopText.sent)>>
    ELSE <<Record("loop",
                  LoopText.cycle \o Str(n) \o LoopText.status \o posted.result.status \o
                  LoopText.detail \o
                  Truncate(ScrubSensitive(posted.result.detail, key),
                           DetailLimit))>>

(* _seal and the handler of run() around it *)
SealRecords(url, key, posted) ==
    <<Record("loop", LoopText.sealing)>> \o
    (IF posted.raised # "none"
     THEN <<Record("loop", LoopText.seal_failed \o UnknownUrl(url))>>
     ELSE IF posted.result.kind = "nondict"
     THEN <<Record("loop", LoopText.seal_failed \o LoopText.no_get)>>
     ELSE IF posted.result.status = LoopText.error
     THEN <<Record("loop",
                   LoopText.seal_response \o posted.result.status \o LoopText.dash \o
                   Truncate(ScrubSensitive(posted.result.detail, key),
                            DetailLimit))>>
     ELSE <<Record("loop",
                   LoopText.seal_complete \o posted.result.status \o LoopText.capsule \o
                   posted.result.capsule)>>)

(* The configuration the exchanges run with, none made yet; a              *)
(* specification that does not model them (on = FALSE) fixes it.           *)
ExchangeInit(on) ==
    /\ base_url \in (IF on THEN BaseUrls
                     ELSE {<<"h", "t", "t", "p", ":", "/", "/", "s">>})
    /\ exch_key \in (IF on THEN TenantKeys ELSE {<<>>})
    /\ exchanges = 0
    /\ exch = "none"
    /\ response = Response("none", 0, <<>>, <<>>, <<>>)
    /\ headers = {}
    /\ post_raised = "none"
    /\ post_result = NoResult
    /\ records = <<>>

(* One ingest exchange: client.post_ingest and what _collect_and_send and  *)
(* run() do with its outcome                                               *)
IngestExchange ==
    /\ exchanges < MaxExchanges
    /\ exchanges' = exchanges + 1
    /\ exch' = "ingest"
    /\ LET url == Url(base_url, ClientText.ingest_path) IN
       \E r \in Outcomes(url, exch_key) :
          LET posted == Post(url, exch_key, r)
          IN  /\ response' = r
              /\ headers' = posted.headers
              /\ post_raised' = posted.raised
              /\ post_result' = posted.result
              /\ records' = posted.records \o
                            IngestRecords(exchanges + 1, url, exch_key, posted)
    /\ UNCHANGED <<base_url, exch_key>>
    /\ UNCHANGED <<lvars, pvars, mvars, svars, nvars, cvars, kvars>>

(* One seal exchange: _seal, client.post_seal and what run() does with an  *)
(* exception of theirs                                                     *)
SealExchange ==
    /\ exchanges < MaxExchanges
    /\ exchanges' = exchanges + 1
    /\ exch' = "seal"
    /\ LET url == Url(base_url, ClientText.seal_path) IN
       \E r \in Outcomes(url, exch_key) :
          LET posted == Post(url, exch_key, r)
          IN  /\ response' = r
              /\ headers' = posted.headers
              /\ post_raised' = posted.raised
              /\ post_result' = posted.result
              /\ records' = <<Record("loop", LoopText.sealing)>> \o posted.records
                            \o Tail(SealRecords(url, exch_key, posted))
    /\ UNCHANGED <<base_url, exch_key>>
    /\ UNCHANGED <<lvars, pvars, mvars, svars, nvars, cvars, kvars>>

-----------------------------------------------------------------------------
(* agent/normalize.py *)

(* A key of the raw snapshot: absent (val is then what raw.get falls back  *)
(* to), or present with a value                                            *)
Entry(has, val) == [has |-> has, val |-> val]

(* raw.get(key, default) *)
Get(entry, default) == IF entry.has THEN entry.val ELSE default

(* The lists a snapshot may hold under one of its list keys *)
ListEntries ==
    {Entry(FALSE, <<>>)} \cup
    {Entry(TRUE, l) : l \in Strings({"item"}, MaxItems)}

(* The raw snapshots explored.  facts stands for the scalar keys (os,      *)
(* username, uptime_secs, cpu_percent, ram_percent, memory), which         *)
(* normalize_telemetry copies into the system event.                       *)
Snapshots ==
    [hostname : {Entry(FALSE, "unknown"), Entry(TRUE, "web1")},
     facts : {"facts"},
     processes : ListEntries,
     network : ListEntries,
     disks : ListEntries,
     open_ports : ListEntries]

(* The order in which normalize_telemetry appends its events *)
CategoryOrder == <<"system", "processes", "network", "disk_usage", "open_ports">>

(* `if processes:` and its like: a list is kept when it is non-empty *)
TruthyAlways(list) == TRUE
Truthy(list) == list # <<>>

(* _iso_now(): the wall clock reading, formatted *)
IsoNow(reading) == Str(reading)

(* str(uuid.uuid4()) for the n-th value drawn.  uuid4 values are taken as  *)
(* fresh: no two draws give the same value.                                *)
BatchIdFixed(n) == Str(0)
BatchId(n) == Str(n)

(* The timestamp a batch carries, ts being the reading taken at the start  *)
(* of the call                                                             *)
BatchTimeLater(ts, reading) == IsoNow(reading + 1)
BatchTime(ts, reading) == ts

Event(type, ts, data) == [event_type |-> type, timestamp |-> ts, data |-> data]

(* One optional event of normalize_telemetry *)
ListEvent(type, ts, list, data) ==
    IF Truthy(list) THEN <<Event(type, ts, data)>> ELSE <<>>

(* normalize_telemetry(raw, agent_id, source_id), called when the wall     *)
(* clock reads `reading` and n uuid4 values have been drawn                *)
NormalizeTelemetry(r, aid, sid, reading, n) ==
    LET ts == IsoNow(reading)
        processes == Get(r.processes, <<>>)
        network == Get(r.network, <<>>)
        disks == Get(r.disks, <<>>)
        open_ports == Get(r.open_ports, <<>>)
        events ==
          <<Event("system", ts,
                  [hostname |-> Get(r.hostname, "unknown"),
                   facts |-> r.facts])>>
          \o ListEvent("processes", ts, processes,
                       [count |-> Len(processes), top |-> processes])
          \o ListEvent("network", ts, network, [summary |-> network])
          \o ListEvent("disk_usage", ts, disks,
                       [count |-> Len(disks), volumes |-> disks])
          \o ListEvent("open_ports", ts, open_ports,
                       [count |-> Len(open_ports), ports |-> open_ports])
    IN  [events |-> events,
         source_id |-> sid,
         agent_id |-> aid,
         endpoint_name |-> Get(r.hostname, "unknown"),
         batch_id |-> BatchId(n + 1),
         timestamp |-> BatchTime(ts, reading)]

(* No payload yet *)
NoBatch ==
    [events |-> <<>>, source_id |-> "", agent_id |-> "", endpoint_name |-> "",
     batch_id |-> <<>>, timestamp |-> <<>>]

(* The arguments of the calls, none made yet; a specification that does    *)
(* not model them (on = FALSE) fixes the snapshot and the clock.           *)
NormInit(on) ==
    /\ snapshot \in (IF on THEN Snapshots
                     ELSE {[hostname |-> Entry(FALSE, "unknown"),
                            facts |-> "facts",
                            processes |-> Entry(FALSE, <<>>),
                            network |-> Entry(FALSE, <<>>),
                            disks |-> Entry(FALSE, <<>>),
                            open_ports |-> Entry(FALSE, <<>>)]})
    /\ agent_id = "agent-1"
    /\ source_id = "agent-1:web1"
    /\ wall \in (IF on THEN 0..MaxWall ELSE {0})
    /\ uuids = 0
    /\ norm_calls = 0
    /\ batch = NoBatch
    /\ prev_batch = NoBatch

(* The wall clock is read through datetime.now(): its reading changes with *)
(* the clock's resolution and may be set, forwards or backwards, at any    *)
(* moment.                                                                 *)
WallMoves ==
    /\ \E reading \in 0..MaxWall :
          /\ reading # wall
          /\ wall' = reading
    /\ UNCHANGED <<snapshot, agent_id, source_id, uuids, norm_calls, batch,
                   prev_batch>>
    /\ UNCHANGED <<lvars, pvars, mvars, svars, tvars, cvars, kvars>>

(* One call of normalize_telemetry *)
NormalizeCall ==
    /\ norm_calls < MaxNormCalls
    /\ norm_calls' = norm_calls + 1
    /\ uuids' = uuids + 1
    /\ batch' = NormalizeTelemetry(snapshot, agent_id, source_id, wall, uuids)
    /\ prev_batch' = batch
    /\ UNCHANGED <<snapshot, agent_id, source_id, wall>>
    /\ UNCHANGED <<lvars, pvars, mvars, svars, tvars, cvars, kvars>>

-----------------------------------------------------------------------------
(* agent/collector.py *)

(* The values of _SYSTEM the probes have a branch for *)
CollectorSystems == {"Linux", "Darwin", "Windows"}

(* The seven probes of collect_all that read the host *)
Probes ==
    {"uptime", "cpu", "memory", "processes", "network", "disks", "ports"}

(* Whether a probe runs an external command on a platform (the others read *)
(* a file under /proc or call the Windows API)                             *)
RunsCommand(plat, probe) ==
    CASE probe = "uptime" -> plat = "Darwin"
      [] probe = "cpu" -> plat \in {"Darwin", "Windows"}
      [] probe = "memory" -> plat = "Darwin"
      [] probe = "disks" -> plat \in {"Linux", "Darwin"}
      [] OTHER -> TRUE

(* How the source of a probe may behave during one call: "ok"; "error",    *)
(* the read or the launch raises (missing file or tool, OSError);          *)
(* "nonzero", the command exits with a non-zero code and prints nothing;   *)
(* "timeout", subprocess.run raises TimeoutExpired; "nonzero2", the second *)
(* command of the probe (vm_stat after sysctl) exits non-zero.             *)
Modes(plat, probe) ==
    {"ok", "error"}
    \cup (IF RunsCommand(plat, probe) THEN {"nonzero", "timeout"} ELSE {})
    \cup (IF plat = "Darwin" /\ probe = "memory" THEN {"nonzero2"} ELSE {})

(* What each probe returns.  "reading" is a value read from the host,      *)
(* "none" is None, "empty" is [], "zero_counts" is the one-element list    *)
(* [{"listening": 0, "established": 0}], "all_used" the memory dict that   *)
(* reports used_bytes = total_bytes and percent 100.0.                     *)
GetUptime(plat, mode) == IF mode = "ok" THEN "reading" ELSE "none"

GetCpuUsage(plat, mode) == IF mode = "ok" THEN "reading" ELSE "none"

(* Darwin: the exit code of sysctl is tested, the one of vm_stat is not:   *)
(* without output of vm_stat no page counts as free.                       *)
GetMemoryUsage(plat, mode) ==
    CASE mode = "ok" -> "reading"
      [] mode = "nonzero2" -> "all_used"
      [] OTHER -> "none"

GetProcesses(plat, mode) == IF mode = "ok" THEN "reading" ELSE "empty"

(* The exit code of ss / netstat is not tested: the lines of an empty      *)
(* output are counted and the summary is appended.                         *)
GetNetworkSummary(plat, mode) ==
    CASE mode = "ok" -> "reading"
      [] mode = "nonzero" -> "zero_counts"
      [] OTHER -> "empty"

GetDiskUsage(plat, mode) == IF mode = "ok" THEN "reading" ELSE "empty"

GetOpenPorts(plat, mode) == IF mode = "ok" THEN "reading" ELSE "empty"

(* `mem.get("percent") if mem else None` *)
RamPercent(mem) == IF mem = "none" THEN "none" ELSE mem

(* collect_all(), the sources of the probes behaving as m says *)
CollectAll(plat, m) ==
    LET mem == GetMemoryUsage(plat, m["memory"])
    IN  [hostname |-> "reading",
         os |-> "reading",
         username |-> "reading",
         uptime_secs |-> GetUptime(plat, m["uptime"]),
         cpu_percent |-> GetCpuUsage(plat, m["cpu"]),
         memory |-> mem,
         ram_percent |-> RamPercent(mem),
         processes |-> GetProcesses(plat, m["processes"]),
         network |-> GetNetworkSummary(plat, m["network"]),
         disks |-> GetDiskUsage(plat, m["disks"]),
         open_ports |-> GetOpenPorts(plat, m["ports"])]

(* No snapshot yet *)
NoSnapshot == [hostname |-> "none"]

AllOk == [p \in Probes |-> "ok"]

(* collect_all is about to be called on a host whose probes' sources       *)
(* behave in any of their ways; a specification that does not model the    *)
(* call (on = FALSE) fixes them.                                           *)
CollectInit(on) ==
    /\ collector_system \in (IF on THEN CollectorSystems ELSE {"Linux"})
    /\ failing \in (IF on
                    THEN [Probes -> {"ok", "error", "nonzero", "timeout",
                                     "nonzero2"}]
                    ELSE {AllOk})
    /\ \A p \in Probes : failing[p] \in Modes(collector_system, p)
    /\ collected = NoSnapshot
    /\ collect_done = FALSE

(* The call of collect_all *)
CollectCall ==
    /\ ~collect_done
    /\ collected' = CollectAll(collector_system, failing)
    /\ collect_done' = TRUE
    /\ UNCHANGED <<collector_system, failing>>
    /\ UNCHANGED <<lvars, pvars, mvars, svars, tvars, nvars, kvars>>

(* ---- _get_cpu_usage on Linux: the delta of two /proc/stat samples ---- *)

(* The <<idle, total>> tick counts a read of /proc/stat may give: idle and *)
(* total each rise, stay or fall between two reads                         *)
CpuSamples == {900, 1000, 1100} \X {2000, 2100, 2200}

(* round(num / den, 0) for den > 0: the nearest integer *)
RoundDiv(num, den) == (2 * num + den) \div (2 * den)

(* The percentage of lines 87-91 in tenths of a percent,                   *)
(* round((1.0 - idle_delta / total_delta) * 100, 1)                        *)
UsageZero(idle_delta, total_delta) == 0

Usage(idle_delta, total_delta) ==
    RoundDiv(1000 * (total_delta - idle_delta), total_delta)

(* _get_cpu_usage() when _SYSTEM is "Linux", entered with _prev_cpu_sample *)
(* = prev and reading the sample read (<<>>: the open, the read or int()   *)
(* raises, which `except Exception` turns into None).  Gives the value     *)
(* returned and the _prev_cpu_sample left.                                 *)
GetCpuUsageLinux(prev, read) ==
    IF read = <<>>
    THEN [value |-> <<>>, stored |-> prev]
    ELSE IF prev = <<>>
    THEN [value |-> <<0>>, stored |-> read]
    ELSE IF read[2] - prev[2] <= 0
    THEN [value |-> <<0>>, stored |-> read]
    ELSE [value |-> <<Usage(read[1] - prev[1], read[2] - prev[2])>>,
          stored |-> read]

(* The process has started: no sample yet; a specification that does not   *)
(* model the calls (on = FALSE) makes none.                                *)
CpuInit(on) ==
    /\ prev_cpu_sample = <<>>
    /\ cpu_calls = IF on THEN 0 ELSE MaxCpuCalls
    /\ cpu_read = <<>>
    /\ cpu_before = <<>>
    /\ cpu_percent = <<>>

(* One call of _get_cpu_usage *)
CpuCall ==
    /\ cpu_calls < MaxCpuCalls
    /\ \E read \in CpuSamples \cup {<<>>} :
          LET r == GetCpuUsageLinux(prev_cpu_sample, read)
          IN  /\ cpu_read' = read
              /\ cpu_percent' = r.value
              /\ prev_cpu_sample' = r.stored
    /\ cpu_before' = prev_cpu_sample
    /\ cpu_calls' = cpu_calls + 1
    /\ UNCHANGED <<lvars, pvars, gvars, ovars, hvars, ivars>>


(* ---- _get_processes and _get_open_ports: the parsing of the listings ---- *)

(* `_get_processes(20)` of collect_all *)
TopN == 20

(* The state column of a line of netstat or ss *)
PortText ==
    [listen |-> <<"L", "I", "S", "T", "E", "N">>,
     listening |-> <<"L", "I", "S", "T", "E", "N", "I", "N", "G">>,
     listening_lower |-> <<"l", "i", "s", "t", "e", "n", "i", "n", "g">>,
     established |-> <<"E", "S", "T", "A", "B", "L", "I", "S", "H", "E", "D">>]

(* The lines a tool may print after its header.  A line has the form "ok"  *)
(* (all its columns, numbers where numbers are expected) or "short" (too   *)
(* few columns); a line of netstat or ss has a state column, whose text is *)
(* the only place of the line where the letters of LISTEN can stand.       *)
ToolLines(t) ==
    [state : IF t = "ps" THEN {<<>>}
             ELSE {PortText.listen, PortText.listening,
                   PortText.listening_lower, PortText.established},
     form : {"ok", "short"}]

(* tasklist /NH and ps --no-headers print no header line; ps -r, ss and    *)
(* netstat print one.                                                      *)
HasHeader(plat, t) == ~(t = "ps" /\ plat \in {"Linux", "Windows"})

(* The outputs explored: up to MaxMixed lines of any kinds, and up to      *)
(* MaxLines lines of one kind, after the header.  Each line carries its    *)
(* number no in the output, which stands for its pid or its port.          *)
ToolOutputs(plat, t) ==
    LET bodies == UNION {[1..n -> ToolLines(t)] : n \in 0..MaxMixed}
                  \cup {[i \in 1..n |-> l] :
                           n \in 0..MaxLines, l \in ToolLines(t)}
        head == IF HasHeader(plat, t)
                THEN <<[state |-> <<>>, form |-> "header"]>>
                ELSE <<>>
        Numbered(lines) ==
            [i \in 1..Len(lines) |->
                [no |-> i, state |-> lines[i].state, form |-> lines[i].form]]
    IN  {Numbered(head \o b) : b \in bodies}

(* lines[:n] *)
Prefix(lines, n) == SubSeq(lines, 1, IF Len(lines) < n THEN Len(lines) ELSE n)

(* lines[1:] *)
DropFirst(lines) == IF lines = <<>> THEN <<>> ELSE Tail(lines)

(* The loops of _get_processes(top_n): the first top_n lines (on Darwin    *)
(* after the header) are parsed and those with too few columns skipped.    *)
ParseProcesses(plat, lines, top_n) ==
    LET Parsed(l) == l.form = "ok"
        taken == IF plat = "Darwin"
                 THEN Prefix(DropFirst(lines), top_n)
                 ELSE Prefix(lines, top_n)
    IN  [i \in 1..Len(SelectSeq(taken, Parsed)) |->
            [no |-> SelectSeq(taken, Parsed)[i].no]]

(* The loops of _get_open_ports: Windows keeps the lines that contain      *)
(* LISTENING, Darwin those that contain LISTEN, Linux drops the header and *)
(* keeps every line; the state of an entry is the literal of the branch.   *)
ParsePorts(plat, lines) ==
    LET Kept(l) ==
            /\ l.form = "ok"
            /\ CASE plat = "Windows" -> Contains(l.state, PortText.listening)
                 [] plat = "Darwin" -> Contains(l.state, PortText.listen)
                 [] OTHER -> TRUE
        taken == IF plat = "Linux" THEN DropFirst(lines) ELSE lines
        kept == SelectSeq(taken, Kept)
    IN  [i \in 1..Len(kept) |->
            [no |-> kept[i].no,
             state |-> IF plat = "Windows" THEN PortText.listening
                       ELSE PortText.listen]]

(* No listing asked for yet; the specifications that model no listing      *)
(* (on = FALSE) stay on one platform.                                      *)
ListingInit(on) ==
    /\ listing_system \in (IF on THEN CollectorSystems ELSE {"Linux"})
    /\ tool = "none"
    /\ tool_output = <<>>
    /\ listing = <<>>

(* A call of _get_processes(20) whose ps or tasklist exits with code 0 *)
ProcessesCall ==
    /\ tool' = "ps"
    /\ tool_output' \in ToolOutputs(listing_system, "ps")
    /\ listing' = ParseProcesses(listing_system, tool_output', TopN)
    /\ UNCHANGED listing_system
    /\ UNCHANGED <<lvars, pvars, gvars, uvars, hvars, ivars>>

(* A call of _get_open_ports whose ss or netstat exits with code 0 *)
PortsCall ==
    /\ tool' = "ports"
    /\ tool_output' \in ToolOutputs(listing_system, "ports")
    /\ listing' = ParsePorts(listing_system, tool_output')
    /\ UNCHANGED listing_system
    /\ UNCHANGED <<lvars, pvars, gvars, uvars, hvars, ivars>>


(* ---- the external calls of a cycle and of a stop, and their timeouts ---- *)

(* The probes in the order collect_all calls them *)
ProbeOrder ==
    <<"memory", "uptime", "cpu", "processes", "network", "disks", "ports">>

(* The timeout= argument of each external call, in seconds; 0 where the    *)
(* call is made without one.  The probes pass 5, the network and ports     *)
(* probes 10, urlopen 30, tasklist 5; taskkill is run without timeout.     *)
CallTimeout(name) ==
    CASE name \in {"network", "ports"} -> 10
      [] name \in {"ingest", "seal"} -> 30
      [] name = "taskkill" -> 0
      [] OTHER -> 5

(* The external calls of one cycle of run(): the commands of the probes    *)
(* (two for the memory probe on Darwin), the ingest request, and the seal  *)
(* request when the seal is due.                                           *)
CycleCalls(plat, due) ==
    LET Runs(probe) == RunsCommand(plat, probe)
    IN  (IF plat = "Darwin" THEN <<"memory">> ELSE <<>>)
        \o SelectSeq(ProbeOrder, Runs)
        \o <<"ingest">>
        \o (IF due THEN <<"seal">> ELSE <<>>)

(* The external calls of _stop_agent on a PID file that names a process:   *)
(* tasklist and taskkill on Windows, none elsewhere (/proc and os.kill)    *)
StopCalls(plat) ==
    IF plat = "Windows" THEN <<"tasklist", "taskkill">> ELSE <<>>

(* Whether the exception of an expired timeout is caught where the call is *)
(* made: the probes and _post catch Exception; _is_our_agent catches       *)
(* OSError only, which TimeoutExpired of tasklist is not.                  *)
TimeoutCaught(name) == name # "tasklist"

(* Nothing runs; the specifications that model no job (on = FALSE) start   *)
(* none.                                                                   *)
JobInit(on) ==
    /\ job_system \in (IF on THEN CollectorSystems ELSE {"Linux"})
    /\ job = "none"
    /\ pending = <<>>
    /\ waiting = "no"
    /\ expired = 0
    /\ job_end = "none"
    /\ jobs = IF on THEN 0 ELSE MaxJobs

(* A cycle of run() starts, or _stop_agent is called *)
JobStarts ==
    /\ job = "none"
    /\ jobs < MaxJobs
    /\ jobs' = jobs + 1
    /\ \/ /\ job' = "cycle"
          /\ \E due \in BOOLEAN : pending' = CycleCalls(job_system, due)
       \/ /\ job' = "stop"
          /\ pending' = StopCalls(job_system)
    /\ expired' = 0
    /\ job_end' = "none"
    /\ UNCHANGED <<job_system, waiting>>
    /\ UNCHANGED <<lvars, pvars, gvars, uvars, ovars, ivars>>

(* The job makes its next external call; the tool or the server answers or *)
(* hangs.                                                                  *)
CallStarts ==
    /\ job # "none"
    /\ waiting = "no"
    /\ pending # <<>>
    /\ waiting' \in {"running", "hung"}
    /\ UNCHANGED <<job_system, job, pending, expired, job_end, jobs>>
    /\ UNCHANGED <<lvars, pvars, gvars, uvars, ovars, ivars>>

(* The call returns (or raises at once): the job goes on *)
CallReturns ==
    /\ waiting = "running"
    /\ waiting' = "no"
    /\ pending' = Tail(pending)
    /\ UNCHANGED <<job_system, job, expired, job_end, jobs>>
    /\ UNCHANGED <<lvars, pvars, gvars, uvars, ovars, ivars>>

(* The timeout of a hung call expires: subprocess.run raises               *)
(* TimeoutExpired, urlopen a timeout error.  Caught, the job goes on with  *)
(* its next call; not caught, the exception leaves _stop_agent.            *)
TimeoutExpires ==
    /\ waiting = "hung"
    /\ CallTimeout(Head(pending)) > 0
    /\ waiting' = "no"
    /\ expired' = expired + 1
    /\ IF TimeoutCaught(Head(pending))
       THEN /\ pending' = Tail(pending)
            /\ UNCHANGED <<job, job_end>>
       ELSE /\ pending' = <<>>
            /\ job' = "none"
            /\ job_end' = "raise"
    /\ UNCHANGED <<job_system, jobs>>
    /\ UNCHANGED <<lvars, pvars, gvars, uvars, ovars, ivars>>

(* No call is left: the cycle reaches time.sleep, _stop_agent returns *)
JobEnds ==
    /\ job # "none"
    /\ waiting = "no"
    /\ pending = <<>>
    /\ job' = "none"
    /\ job_end' = IF job = "cycle" THEN "sleep" ELSE "return"
    /\ UNCHANGED <<job_system, pending, waiting, expired, jobs>>
    /\ UNCHANGED <<lvars, pvars, gvars, uvars, ovars, ivars>>


-----------------------------------------------------------------------------
(* The host: platform, process table, PID file *)

Platforms == {"Windows", "Linux", "Darwin"}

Pids == 1..MaxPid

(* Programs a process of the host may run.  "agent" and "agent_root" are   *)
(* this agent (the second started by another user, so that signalling it   *)
(* is not permitted); the others are unrelated programs.                   *)
AgentPrograms == {"agent", "agent_root"}
ForeignPrograms == {"vim", "ssh-agent", "otherpy"}
Programs == AgentPrograms \cup ForeignPrograms

OwnedByOther(g) == g = "agent_root"

(* The content of /proc/<pid>/cmdline of a process running g *)
Cmdline(g) ==
    CASE g \in AgentPrograms -> HostText.agent_cmdline
      [] g = "vim" -> HostText.vim_cmdline
      [] g = "ssh-agent" -> HostText.ssh_agent_cmdline
      [] g = "otherpy" -> HostText.other_py_cmdline

(* The image name tasklist prints for a process running g *)
Image(g) ==
    CASE g \in AgentPrograms -> HostText.agent_image
      [] g = "vim" -> HostText.notepad_image
      [] g = "ssh-agent" -> HostText.ssh_agent_image
      [] g = "otherpy" -> HostText.agent_image

ProcAt(t, pid) == IF pid \in DOMAIN t THEN t[pid] ELSE "none"

NoFile == [present |-> FALSE, raw |-> <<>>]

(* A byte of the PID file that the locale's codec cannot decode: the text  *)
(* mode read of `f.read()` raises UnicodeDecodeError on it.                *)
BadByte == "0xFF"
Decodes(raw) == \A i \in 1..Len(raw) : raw[i] # BadByte

(* Texts found in the PID file that no _write_pid call of this agent wrote *)
ForeignTexts ==
    { <<"n", "o", "t", "_", "a">>, <<>>, <<"0">>, <<"-", "1">>,
      <<"9", "\n">>, <<BadByte, "1">> }

-----------------------------------------------------------------------------
(* agent/__main__.py *)

(* _write_pid: open(pid_path, "w"), f.write(str(pid)) *)
WritePid(pid) == [present |-> TRUE, raw |-> Str(pid)]

(* _remove_pid: os.remove(pid_path), OSError of a missing file swallowed *)
RemovePid(f) == NoFile

(* os.kill(pid, sig) on POSIX.  pid > 0 names one process; pid = 0 the     *)
(* caller's process group and pid = -1 every process the caller may        *)
(* signal, both of which hold at least the caller's own shell.             *)
PosixKill(t, pid) ==
    CASE pid <= 0 -> "ok"
      [] ProcAt(t, pid) = "none" -> "ProcessLookupError"
      [] OwnedByOther(ProcAt(t, pid)) -> "PermissionError"
      [] OTHER -> "ok"

(* subprocess.run(["taskkill", "/F", "/PID", pid], check=True): a non-zero *)
(* exit (no such process, access denied) raises CalledProcessError         *)
TaskKill(t, pid) ==
    CASE ProcAt(t, pid) = "none" -> "CalledProcessError"
      [] OwnedByOther(ProcAt(t, pid)) -> "CalledProcessError"
      [] OTHER -> "ok"

(* stdout of tasklist /FI "PID eq <pid>" /FO CSV /NH *)
TaskListLine(t, pid) ==
    IF ProcAt(t, pid) = "none"
    THEN HostText.no_task_line
    ELSE Image(ProcAt(t, pid))

(* _is_our_agent *)
IsOurAgent(plat, t, pid) ==
    IF plat = "Windows"
    THEN LET line == Lower(TaskListLine(t, pid))
         IN  Contains(line, Needle.python) \/ Contains(line, Needle.ghostlogic)
    ELSE IF plat = "Linux" /\ ProcAt(t, pid) # "none"
         THEN Contains(Cmdline(ProcAt(t, pid)), Needle.agent)
         ELSE PosixKill(t, pid) = "ok"

(* The termination request of _stop_agent *)
Terminate(plat, t, pid) ==
    IF plat = "Windows" THEN TaskKill(t, pid) ELSE PosixKill(t, pid)

(* The branches of _stop_agent: what the call printed, the PID file it     *)
(* left, the PIDs it asked the OS to terminate, the exception that left it *)
StopNoFileRaises(f) ==
    [msg |-> "none", file |-> f, term |-> <<>>,
     raised |-> "FileNotFoundError"]
StopNoFile(f) ==
    [msg |-> "no_pid_file", file |-> f, term |-> <<>>, raised |-> "none"]

(* `with open(pid_path, "r") as f: raw = f.read().strip()` stands before   *)
(* the try: a content that does not decode leaves _stop_agent by the       *)
(* UnicodeDecodeError of the read.                                         *)
StopUndecodable(f) ==
    [msg |-> "none", file |-> f, term |-> <<>>,
     raised |-> "UnicodeDecodeError"]

StopCorrupt(f) ==
    [msg |-> "corrupt", file |-> RemovePid(f), term |-> <<>>,
     raised |-> "none"]

StopStaleSignals(pid, f) ==
    [msg |-> "stale", file |-> RemovePid(f), term |-> <<pid>>,
     raised |-> "none"]
StopStale(pid, f) ==
    [msg |-> "stale", file |-> RemovePid(f), term |-> <<>>,
     raised |-> "none"]

(* try: kill / except (ProcessLookupError, CalledProcessError); then       *)
(* _remove_pid.  Any other exception leaves _stop_agent before _remove_pid *)
StopSignal(pid, f, outcome) ==
    CASE outcome = "ok" ->
           [msg |-> "stopped", file |-> RemovePid(f), term |-> <<pid>>,
            raised |-> "none"]
      [] outcome \in {"ProcessLookupError", "CalledProcessError"} ->
           [msg |-> "already_stopped", file |-> RemovePid(f),
            term |-> <<pid>>, raised |-> "none"]
      [] OTHER ->
           [msg |-> "none", file |-> f, term |-> <<pid>>,
            raised |-> outcome]

StopIdle ==
    /\ stops = 0
    /\ stopMsg = "none"
    /\ stopRaised = "none"
    /\ stopPid = 0
    /\ verified = FALSE
    /\ termReqs = <<>>
    /\ victim = "none"

(* A host on which nothing of the agent has run yet *)
HostInit ==
    /\ platform \in Platforms
    /\ pidFile = NoFile
    /\ procs = [p \in Pids |-> "none"]

(* The process table after a termination request with the given outcome *)
AfterSignal(t, pid, outcome) ==
    IF outcome = "ok" /\ pid \in DOMAIN t
    THEN [t EXCEPT ![pid] = "none"]
    ELSE t

(* _stop_agent(config).  Between _is_our_agent and the termination request *)
(* the process may exit (gone).                                            *)
StopAgentCall ==
    /\ stops < MaxStops
    /\ stops' = stops + 1
    /\ LET parsed == ParseInt(Strip(pidFile.raw))
           pid == parsed.val
       IN
       IF ~pidFile.present
       THEN /\ stopMsg' = StopNoFile(pidFile).msg
            /\ pidFile' = StopNoFile(pidFile).file
            /\ termReqs' = StopNoFile(pidFile).term
            /\ stopRaised' = StopNoFile(pidFile).raised
            /\ stopPid' = 0
            /\ verified' = FALSE
            /\ victim' = "none"
            /\ UNCHANGED procs
       ELSE IF ~Decodes(pidFile.raw)
       THEN /\ stopMsg' = StopUndecodable(pidFile).msg
            /\ pidFile' = StopUndecodable(pidFile).file
            /\ termReqs' = StopUndecodable(pidFile).term
            /\ stopRaised' = StopUndecodable(pidFile).raised
            /\ stopPid' = 0
            /\ verified' = FALSE
            /\ victim' = "none"
            /\ UNCHANGED procs
       ELSE IF ~parsed.ok
       THEN /\ stopMsg' = StopCorrupt(pidFile).msg
            /\ pidFile' = StopCorrupt(pidFile).file
            /\ termReqs' = StopCorrupt(pidFile).term
            /\ stopRaised' = "none"
            /\ stopPid' = 0
            /\ verified' = FALSE
            /\ victim' = "none"
            /\ UNCHANGED procs
       ELSE IF ~IsOurAgent(platform, procs, pid)
       THEN /\ stopMsg' = StopStale(pid, pidFile).msg
            /\ pidFile' = StopStale(pid, pidFile).file
            /\ termReqs' = StopStale(pid, pidFile).term
            /\ stopRaised' = "none"
            /\ stopPid' = pid
            /\ verified' = FALSE
            /\ victim' = "none"
            /\ UNCHANGED procs
       ELSE \E gone \in BOOLEAN :
            LET t == IF gone /\ pid \in DOMAIN procs
                     THEN [procs EXCEPT ![pid] = "none"] ELSE procs
                outcome == Terminate(platform, t, pid)
                r == StopSignal(pid, pidFile, outcome)
            IN  /\ stopMsg' = r.msg
                /\ pidFile' = r.file
                /\ termReqs' = r.term
                /\ stopRaised' = r.raised
                /\ stopPid' = pid
                /\ verified' = TRUE
                /\ victim' = IF outcome = "ok" THEN ProcAt(t, pid) ELSE "none"
                /\ procs' = AfterSignal(t, pid, outcome)
    /\ UNCHANGED platform

(* `ghostlogic-agent --stop`, seen from the host *)
StopAgent ==
    /\ StopAgentCall
    /\ UNCHANGED lvars
    /\ UNCHANGED xvars

(* main(), foreground mode: the process (PID p, free until now) writes its *)
(* PID to the PID file before run().                                       *)
AgentStart ==
    /\ \E p \in Pids, g \in AgentPrograms :
          /\ procs[p] = "none"
          /\ procs' = [procs EXCEPT ![p] = g]
          /\ pidFile' = WritePid(p)
    /\ UNCHANGED <<platform, stops, stopMsg, stopRaised, stopPid, verified,
                   termReqs, victim>>
    /\ UNCHANGED lvars
    /\ UNCHANGED xvars

(* main(), foreground mode: run() ended, `finally: _remove_pid(pid_path);  *)
(* sys.exit(0)`.                                                           *)
AgentExit ==
    /\ \E p \in Pids :
          /\ procs[p] \in AgentPrograms
          /\ procs' = [procs EXCEPT ![p] = "none"]
          /\ pidFile' = RemovePid(pidFile)
    /\ UNCHANGED <<platform, stops, stopMsg, stopRaised, stopPid, verified,
                   termReqs, victim>>
    /\ UNCHANGED lvars
    /\ UNCHANGED xvars

(* The host: a process ends without running any cleanup (killed, crashed,  *)
(* or an unrelated program that exits).                                    *)
ProcessDies ==
    /\ \E p \in Pids :
          /\ procs[p] # "none"
          /\ procs' = [procs EXCEPT ![p] = "none"]
    /\ UNCHANGED <<platform, pidFile, stops, stopMsg, stopRaised, stopPid,
                   verified, termReqs, victim>>
    /\ UNCHANGED lvars
    /\ UNCHANGED xvars

(* The host: an unrelated program starts and is given a free PID, possibly *)
(* one an agent held before.                                               *)
ProcessSpawns ==
    /\ \E p \in Pids, g \in ForeignPrograms :
          /\ procs[p] = "none"
          /\ procs' = [procs EXCEPT ![p] = g]
    /\ UNCHANGED <<platform, pidFile, stops, stopMsg, stopRaised, stopPid,
                   verified, termReqs, victim>>
    /\ UNCHANGED lvars
    /\ UNCHANGED xvars

(* The host: something other than this agent writes the PID file. *)
FileOverwritten ==
    /\ \E text \in ForeignTexts : pidFile' = [present |-> TRUE, raw |-> text]
    /\ UNCHANGED <<platform, procs, stops, stopMsg, stopRaised, stopPid,
                   verified, termReqs, victim>>
    /\ UNCHANGED lvars
    /\ UNCHANGED xvars

-----------------------------------------------------------------------------
(* main(): one invocation, from the parsed command line to the end of the  *)
(* process                                                                 *)

(* The variables of the lifecycle that only _stop_agent writes *)
stopvars == <<stops, stopMsg, stopRaised, stopPid, verified, termReqs, victim>>

(* The ways run() hands control back to main().  run() loops for ever, but *)
(* main() does not rely on it: a return, an Exception and a                *)
(* KeyboardInterrupt all pass through the try statement around run().      *)
LoopEnds == {"return", "exception", "interrupt"}

(* try: run(config) / except KeyboardInterrupt / finally: where main()     *)
(* continues when run() ended in the given way                             *)
AfterRunNoFinally(how) == IF how = "exception" THEN "exit" ELSE "finally"
AfterRun(how) == "finally"

(* Nothing of main() has run *)
MainIdle ==
    /\ args = [stop |-> FALSE, foreground |-> FALSE]
    /\ tenant_key = FALSE
    /\ registered_now = FALSE
    /\ mpc = "begin"
    /\ mPid = 1
    /\ childPid = 0
    /\ loopEnd = "none"
    /\ exitCode = "none"
    /\ removes = 0

(* main() has parsed its arguments and loaded the configuration; the PID   *)
(* file is absent or left behind by an earlier agent.                      *)
MainInit ==
    /\ args \in [stop : BOOLEAN, foreground : BOOLEAN]
    /\ tenant_key \in BOOLEAN
    /\ registered_now = FALSE
    /\ mpc = "begin"
    /\ mPid \in Pids
    /\ childPid = 0
    /\ loopEnd = "none"
    /\ exitCode = "none"
    /\ removes = 0
    /\ platform \in Platforms
    /\ procs = [p \in Pids |-> IF p = mPid THEN "agent" ELSE "none"]
    /\ pidFile \in {NoFile} \cup {WritePid(p) : p \in Pids}

(* `if args.stop: _stop_agent(config); return` *)
MainStop ==
    /\ mpc = "begin"
    /\ args.stop
    /\ StopAgentCall
    /\ mpc' = "exit"
    /\ exitCode' = IF stopRaised' = "none" THEN "0" ELSE "1"
    /\ UNCHANGED <<args, tenant_key, registered_now, mPid, childPid, loopEnd,
                   removes>>
    /\ UNCHANGED lvars
    /\ UNCHANGED fvars

(* Where main() goes after `result = register(config)`: on with a result, *)
(* to sys.exit(1) without one                                              *)
AfterRegisterGoesOn(result) == "mode"

AfterRegister(result) == IF result THEN "mode" ELSE "exit"

(* `if not config.get("tenant_key"): result = register(config)`: with a    *)
(* result the key is kept and saved, without one main() ends by            *)
(* sys.exit(1).                                                            *)
MainRegister ==
    /\ mpc = "begin"
    /\ ~args.stop
    /\ IF tenant_key
       THEN /\ mpc' = "mode"
            /\ UNCHANGED <<tenant_key, registered_now, exitCode>>
       ELSE \E result \in BOOLEAN :
               IF result
               THEN /\ tenant_key' = TRUE
                    /\ registered_now' = TRUE
                    /\ mpc' = "mode"
                    /\ UNCHANGED exitCode
               ELSE /\ mpc' = AfterRegister(result)
                    /\ exitCode' = IF AfterRegister(result) = "exit"
                                   THEN "1" ELSE exitCode
                    /\ UNCHANGED <<tenant_key, registered_now>>
    /\ UNCHANGED <<args, mPid, childPid, loopEnd, removes>>
    /\ UNCHANGED pvars
    /\ UNCHANGED lvars
    /\ UNCHANGED fvars

(* `if args.foreground:` setup_logging, _write_pid(pid_path, os.getpid()), *)
(* validate_config, and run(config) is entered.  _write_pid may fail with  *)
(* an OSError (directory not writable), which ends main() before the loop. *)
MainForeground ==
    /\ mpc = "mode"
    /\ args.foreground
    /\ \E written \in BOOLEAN :
          IF written
          THEN /\ pidFile' = WritePid(mPid)
               /\ mpc' = "loop"
               /\ UNCHANGED exitCode
          ELSE /\ mpc' = "exit"
               /\ exitCode' = "1"
               /\ UNCHANGED pidFile
    /\ UNCHANGED <<args, tenant_key, registered_now, mPid, childPid, loopEnd,
                   removes>>
    /\ UNCHANGED <<platform, procs>>
    /\ UNCHANGED stopvars
    /\ UNCHANGED lvars
    /\ UNCHANGED fvars

(* run(config) hands control back: by a return, by an Exception that its   *)
(* own handlers did not catch, or by a KeyboardInterrupt.                  *)
MainLoopEnds ==
    /\ mpc = "loop"
    /\ \E how \in LoopEnds :
          /\ loopEnd' = how
          /\ mpc' = AfterRun(how)
          /\ exitCode' = IF AfterRun(how) = "exit" THEN "1" ELSE exitCode
    /\ UNCHANGED <<args, tenant_key, registered_now, mPid, childPid, removes>>
    /\ UNCHANGED pvars
    /\ UNCHANGED lvars
    /\ UNCHANGED fvars

(* `finally: _remove_pid(pid_path); sys.exit(0)` *)
MainFinally ==
    /\ mpc = "finally"
    /\ pidFile' = RemovePid(pidFile)
    /\ removes' = removes + 1
    /\ exitCode' = "0"
    /\ mpc' = "exit"
    /\ procs' = [procs EXCEPT ![mPid] = "none"]
    /\ UNCHANGED <<args, tenant_key, registered_now, mPid, childPid, loopEnd>>
    /\ UNCHANGED platform
    /\ UNCHANGED stopvars
    /\ UNCHANGED lvars
    /\ UNCHANGED fvars

(* The process is killed while run() runs (SIGTERM of a stop, SIGKILL): no *)
(* handler and no finally clause of main() runs.                           *)
MainKilled ==
    /\ mpc = "loop"
    /\ loopEnd' = "killed"
    /\ exitCode' = "killed"
    /\ mpc' = "exit"
    /\ procs' = [procs EXCEPT ![mPid] = "none"]
    /\ UNCHANGED <<args, tenant_key, registered_now, mPid, childPid, removes>>
    /\ UNCHANGED <<platform, pidFile>>
    /\ UNCHANGED stopvars
    /\ UNCHANGED lvars
    /\ UNCHANGED fvars

(* Default mode: pid = _spawn_background(...); _write_pid(pid_path, pid);  *)
(* main() returns and leaves the child running.                            *)
MainBackground ==
    /\ mpc = "mode"
    /\ ~args.foreground
    /\ \E c \in Pids :
          /\ procs[c] = "none"
          /\ procs' = [procs EXCEPT ![c] = "agent", ![mPid] = "none"]
          /\ childPid' = c
          /\ pidFile' = WritePid(c)
    /\ mpc' = "exit"
    /\ exitCode' = "0"
    /\ UNCHANGED <<args, tenant_key, registered_now, mPid, loopEnd, removes>>
    /\ UNCHANGED platform
    /\ UNCHANGED stopvars
    /\ UNCHANGED lvars
    /\ UNCHANGED fvars

(* The loop, not started: the state of the lifecycle specification's       *)
(* loop variables                                                          *)
LoopIdle ==
    /\ pc = "refresh"
    /\ clock = 0
    /\ collect_interval = 1
    /\ seal_interval = 2
    /\ last_seal = 0
    /\ now = 0
    /\ cycle = 0
    /\ jitter = 0
    /\ sleepDur = 0
    /\ exitCause = "none"
    /\ logs = {}
    /\ cycleErr = FALSE
    /\ sealOutcome = "none"
    /\ attempts = 0
    /\ lastOk = 0
    /\ draws = 0
    /\ sleeps = 0

(* The host while the loop specification runs: untouched *)
HostIdle ==
    /\ platform = "Linux"
    /\ pidFile = NoFile
    /\ procs = [p \in Pids |-> "none"]

-----------------------------------------------------------------------------
(* Starts of the agent on one installation: main() in default mode (the    *)
(* parent) spawns main() in foreground mode (the child), and both write    *)
(* the PID file.  An instance is named by the PID of its child.            *)

(* No instance has been started *)
InstancesIdle ==
    /\ parent = [i \in Pids |-> "idle"]
    /\ child = [i \in Pids |-> "none"]

(* Default mode: `pid = _spawn_background(config_path, args.demo)`.  The   *)
(* child is a new process; the parent has yet to write the PID file.       *)
ParentSpawns ==
    /\ \E i \in Pids :
          /\ parent[i] = "idle"
          /\ procs[i] = "none"
          /\ parent' = [parent EXCEPT ![i] = "spawned"]
          /\ child' = [child EXCEPT ![i] = "starting"]
          /\ procs' = [procs EXCEPT ![i] = "agent"]
    /\ UNCHANGED <<platform, pidFile>>
    /\ UNCHANGED stopvars
    /\ UNCHANGED <<lvars, gvars, uvars, ovars, hvars>>

(* Default mode: `_write_pid(pid_path, pid)` after the spawn; main() ends  *)
ParentWritesPid ==
    /\ \E i \in Pids :
          /\ parent[i] = "spawned"
          /\ pidFile' = WritePid(i)
          /\ parent' = [parent EXCEPT ![i] = "done"]
    /\ UNCHANGED <<platform, procs, child>>
    /\ UNCHANGED stopvars
    /\ UNCHANGED <<lvars, gvars, uvars, ovars, hvars>>

(* A service starts main() with --foreground itself: no parent *)
ServiceStarts ==
    /\ \E i \in Pids :
          /\ parent[i] = "idle"
          /\ procs[i] = "none"
          /\ parent' = [parent EXCEPT ![i] = "none"]
          /\ child' = [child EXCEPT ![i] = "starting"]
          /\ procs' = [procs EXCEPT ![i] = "agent"]
    /\ UNCHANGED <<platform, pidFile>>
    /\ UNCHANGED stopvars
    /\ UNCHANGED <<lvars, gvars, uvars, ovars, hvars>>

(* Foreground mode: `_write_pid(pid_path, os.getpid())`, then run(config)  *)
ChildWritesPid ==
    /\ \E i \in Pids :
          /\ child[i] = "starting"
          /\ pidFile' = WritePid(i)
          /\ child' = [child EXCEPT ![i] = "loop"]
    /\ UNCHANGED <<platform, procs, parent>>
    /\ UNCHANGED stopvars
    /\ UNCHANGED <<lvars, gvars, uvars, ovars, hvars>>

(* Foreground mode: run() ends by a return, an Exception or an interrupt,  *)
(* and `finally: _remove_pid(pid_path); sys.exit(0)` runs.                 *)
ChildExits ==
    /\ \E i \in Pids, how \in LoopEnds :
          /\ child[i] = "loop"
          /\ AfterRun(how) = "finally"
          /\ pidFile' = RemovePid(pidFile)
          /\ child' = [child EXCEPT ![i] = "exited"]
          /\ procs' = [procs EXCEPT ![i] = "none"]
    /\ UNCHANGED <<platform, parent>>
    /\ UNCHANGED stopvars
    /\ UNCHANGED <<lvars, gvars, uvars, ovars, hvars>>

-----------------------------------------------------------------------------
(* Specifications *)

(* The calls modelled on their own, none of them made *)
FunctionsIdle ==
    /\ ScrubInit(FALSE)
    /\ ExchangeInit(FALSE)
    /\ NormInit(FALSE)
    /\ CollectInit(FALSE)
    /\ CpuInit(FALSE)
    /\ ListingInit(FALSE)
    /\ JobInit(FALSE)

Init ==
    /\ LoopInit
    /\ HostIdle
    /\ StopIdle
    /\ MainIdle
    /\ FunctionsIdle
    /\ InstancesIdle

Spec == Init /\ [][Next]_vars

StopInit ==
    /\ LoopIdle
    /\ HostInit
    /\ StopIdle
    /\ MainIdle
    /\ FunctionsIdle
    /\ InstancesIdle

StopNext ==
    \/ StopAgent
    \/ AgentStart
    \/ AgentExit
    \/ ProcessDies
    \/ ProcessSpawns
    \/ FileOverwritten

StopSpec == StopInit /\ [][StopNext]_vars

(* The initial states of the specification of one part: that part starts   *)
(* in its initial states, every other part is idle.                        *)
Start(part) ==
    /\ LoopIdle
    /\ StopIdle
    /\ IF part = "main" THEN MainInit ELSE HostIdle /\ MainIdle
    /\ ScrubInit(part = "scrub")
    /\ ExchangeInit(part = "exchange")
    /\ NormInit(part = "normalize")
    /\ CollectInit(part = "collect")
    /\ CpuInit(part = "cpu")
    /\ ListingInit(part = "listing")
    /\ JobInit(part = "job")
    /\ InstancesIdle

MainNext ==
    \/ MainStop
    \/ MainRegister
    \/ MainForeground
    \/ MainLoopEnds
    \/ MainFinally
    \/ MainKilled
    \/ MainBackground

MainSpec == Start("main") /\ [][MainNext]_vars

ScrubSpec == Start("scrub") /\ [][Scrub]_vars

ExchangeNext ==
    \/ IngestExchange
    \/ SealExchange

ExchangeSpec == Start("exchange") /\ [][ExchangeNext]_vars

NormNext ==
    \/ WallMoves
    \/ NormalizeCall

NormSpec == Start("normalize") /\ [][NormNext]_vars

CollectSpec == Start("collect") /\ [][CollectCall]_vars

CpuSpec == Start("cpu") /\ [][CpuCall]_vars

ListingNext ==
    \/ ProcessesCall
    \/ PortsCall

ListingSpec == Start("listing") /\ [][ListingNext]_vars

JobNext ==
    \/ JobStarts
    \/ CallStarts
    \/ CallReturns
    \/ TimeoutExpires
    \/ JobEnds

InstancesNext ==
    \/ ParentSpawns
    \/ ParentWritesPid
    \/ ServiceStarts
    \/ ChildWritesPid
    \/ ChildExits

InstancesSpec == Start("instances") /\ [][InstancesNext]_vars

(* A started job takes its steps, a tool that answers does so in the end,  *)
(* and a call made with a timeout fails when its timeout expires.          *)
JobSpec ==
    /\ Start("job")
    /\ [][JobNext]_vars
    /\ WF_vars(CallStarts)
    /\ WF_vars(CallReturns)
    /\ WF_vars(TimeoutExpires)
    /\ WF_vars(JobEnds)

-----------------------------------------------------------------------------
(* Properties of the loop (specification Spec) *)

(* The step that runs the seal check of the current cycle *)
SealCheckStep == pc = "sealcheck" /\ pc' = "sleep"

(* C1: when a due seal is attempted and the transport returns an error     *)
(* result, last_seal keeps its value; last_seal advances only when the     *)
(* attempt returned a non-error result.                                    *)
C1_ErrorResultKeepsMarker ==
    [][SealCheckStep =>
          /\ (sealOutcome' = "error" => last_seal' = last_seal)
          /\ (last_seal' # last_seal => sealOutcome' = "sealed")]_vars

(* C2: at every seal check the seal is attempted exactly once if the       *)
(* monotonic time since last_seal is >= seal_interval and not at all if it *)
(* is smaller; _seal is called nowhere else.                               *)
C2_SealOncePerDueCheck ==
    [][attempts' = attempts +
          (IF SealCheckStep /\ clock - last_seal >= seal_interval
           THEN 1 ELSE 0)]_vars

(* A check that found the seal not due, after an earlier check that        *)
(* attempted it                                                            *)
C2_Witness == attempts >= 1 /\ sealOutcome = "notdue" /\ pc = "sleep"

(* C3: every seal attempt is made at a clock reading at least              *)
(* seal_interval after the reading of the most recent successful seal, or  *)
(* after the reading at loop start when none has succeeded yet.            *)
C3_NoDuplicateSeal ==
    [][attempts' > attempts => clock - lastOk >= seal_interval]_vars

(* A second attempt, made after a seal that succeeded *)
C3_Witness ==
    /\ attempts >= 2
    /\ pc = "sleep"
    /\ sealOutcome \in {"sealed", "error"}
    /\ lastOk >= 2
    /\ (sealOutcome = "error" => lastOk < now)

(* C4: an Exception raised by collect, normalize or send in cycle n is     *)
(* caught and logged in that cycle; the loop then runs cycle n's seal      *)
(* check and sleep and starts cycle n+1 (only a KeyboardInterrupt takes it *)
(* elsewhere).                                                             *)
C4_CycleErrorIsolated ==
    [][LET interrupted == exitCause' = "KeyboardInterrupt"
       IN  /\ (cycleErr' /\ ~cycleErr) =>
                 /\ pc \in {"collect", "normalize", "send"}
                 /\ pc' = "sealcheck"
                 /\ cycle' = cycle
                 /\ "cycle_failed" \in logs'
                 /\ exitCause' = "none"
           /\ (cycleErr /\ pc' # pc) =>
                 \/ interrupted
                 \/ pc = "sealcheck" /\ pc' = "sleep" /\ cycle' = cycle
                 \/ pc = "sleep" /\ pc' = "sleeping" /\ cycle' = cycle
                 \/ pc = "sleeping" /\ pc' = "refresh" /\ cycle' = cycle
                 \/ pc = "refresh" /\ cycle' = cycle + 1]_vars

(* A cycle in which a step raised has gone through its seal check and its  *)
(* sleep and stands at the top of the loop                                 *)
C4_Witness == cycleErr /\ pc = "refresh" /\ sleeps = cycle /\ cycle >= 1

(* C5: the loop ends only by an interrupt: no failure of hostname refresh, *)
(* collect, normalize, send or seal ends it.                               *)
C5_OnlyInterruptEnds == pc = "stopped" => exitCause = "KeyboardInterrupt"

(* C6: the steps of a cycle run in the order collect, normalize, send,     *)
(* seal check, sleep; cycle n+1 starts only after the sleep of cycle n     *)
(* returned; the cycle counter grows by exactly 1 per cycle.               *)
C6_Sequential ==
    /\ [][/\ pc' # pc =>
                \/ pc' = "stopped"
                \/ <<pc, pc'>> \in
                     { <<"refresh", "collect">>, <<"collect", "normalize">>,
                       <<"normalize", "send">>, <<"send", "sealcheck">>,
                       <<"collect", "sealcheck">>,
                       <<"normalize", "sealcheck">>,
                       <<"sealcheck", "sleep">>, <<"sleep", "sleeping">>,
                       <<"sleeping", "refresh">> }
          /\ cycle' # cycle => pc = "refresh" /\ cycle' = cycle + 1
          /\ (pc = "refresh" /\ pc' = "collect") => cycle' = cycle + 1]_vars
    /\ [](pc \in {"collect", "normalize", "send", "sealcheck", "sleep",
                  "sleeping"} => sleeps = cycle - 1)

(* The second cycle has started, after the first one's sleep *)
C6_Witness == cycle = 2 /\ pc = "collect" /\ sleeps = 1

(* C7: every sleep duration d satisfies                                    *)
(* collect_interval <= d <= 1.1 * collect_interval, and the jitter         *)
(* d - collect_interval is drawn once for each cycle's sleep.              *)
C7_SleepBounds ==
    /\ draws > 0 =>
          /\ sleepDur = collect_interval + jitter
          /\ 10 * collect_interval <= 10 * sleepDur
          /\ 10 * sleepDur <= 11 * collect_interval
    /\ pc = "sleeping" => draws = cycle /\ draws = sleeps + 1
    /\ pc \in {"refresh", "collect", "normalize", "send", "sealcheck",
               "sleep"} => draws = sleeps

(* The second cycle sleeps, with a jitter above zero *)
C7_Witness == pc = "sleeping" /\ cycle = 2 /\ jitter > 0

-----------------------------------------------------------------------------
(* Properties of stop (specification StopSpec) *)

(* The step that is one _stop_agent call *)
StopStep == stops' = stops + 1

(* The PID the file holds when it parses as an integer *)
FilePid == ParseInt(pidFile.raw).val
FileParses == pidFile.present /\ ParseInt(pidFile.raw).ok

C9_VerifiedFileRemoved ==
    [][(StopStep /\ FileParses /\ IsOurAgent(platform, procs, FilePid)) =>
          /\ termReqs' = <<FilePid>>
          /\ ~pidFile'.present]_vars

(* C10: where the OS exposes the command line or the process name of the   *)
(* PID of the file, stop signals it only if the live process is a          *)
(* GhostLogic agent: an unrelated process holding the PID is never         *)
(* signalled.                                                              *)
C10_OnlyAgentSignalled ==
    (platform \in {"Windows", "Linux"} /\ victim # "none")
        => victim \in AgentPrograms

(* C11: stop with no PID file reports that there is nothing to stop and    *)
(* returns normally: no termination request, no file created, no error.    *)
C11_NoFileNothingDone ==
    [][(StopStep /\ ~pidFile.present) =>
          /\ stopMsg' = "no_pid_file"
          /\ ~pidFile'.present
          /\ termReqs' = <<>>
          /\ procs' = procs
          /\ stopRaised' = "none"]_vars

(* stop ran without a PID file while an agent process was alive (its file  *)
(* was taken away by an earlier stop or by another agent's exit)           *)
C11_Witness ==
    /\ stopMsg = "no_pid_file"
    /\ ~pidFile.present
    /\ \E p \in Pids : procs[p] \in AgentPrograms

(* C12: stop with a PID file whose content does not parse as an integer    *)
(* reports the corruption, deletes the file and asks for no termination.   *)
C12_CorruptFileRemoved ==
    [][(StopStep /\ pidFile.present /\ ~ParseInt(Strip(pidFile.raw)).ok) =>
          /\ stopMsg' = "corrupt"
          /\ ~pidFile'.present
          /\ termReqs' = <<>>
          /\ procs' = procs
          /\ stopRaised' = "none"]_vars

-----------------------------------------------------------------------------
(* Properties of main() (specification MainSpec) *)

(* C13: in foreground mode the PID file holds the process's own PID when   *)
(* the loop starts, and on every way the loop ends (return, Exception,     *)
(* KeyboardInterrupt) _remove_pid runs before the process exits.           *)
C13_ForegroundPidFile ==
    /\ [][(mpc' = "loop" /\ mpc # "loop") =>
             (args.foreground /\ pidFile' = WritePid(mPid))]_vars
    /\ [][(mpc = "loop" /\ loopEnd' \in LoopEnds) => mpc' = "finally"]_vars
    /\ []((mpc = "exit" /\ loopEnd \in LoopEnds) =>
             (removes = 1 /\ ~pidFile.present /\ exitCode = "0"))
    /\ [](mpc = "finally" => (removes = 0 /\ exitCode = "none"))

(* The loop ended by an Exception, the file was removed and the process    *)
(* has exited                                                              *)
C13_Witness ==
    /\ mpc = "exit"
    /\ loopEnd = "exception"
    /\ removes = 1
    /\ ~pidFile.present

-----------------------------------------------------------------------------
(* Properties of scrub_sensitive (specification ScrubSpec) *)

(* C16: for every non-empty key and every message the string returned by   *)
(* scrub_sensitive does not contain the key; with an empty key, or a       *)
(* message that does not contain the key, it returns the message as is.    *)
C16_ScrubRemovesKey ==
    scrub_done =>
       /\ (scrub_key # <<>> => ~Contains(scrubbed, scrub_key))
       /\ ((scrub_key = <<>> \/ ~Contains(msg, scrub_key)) => scrubbed = msg)

-----------------------------------------------------------------------------
(* Properties of the exchanges (specification ExchangeSpec) *)

(* C14: the transport never raises: for every endpoint URL, key and        *)
(* failure class, post_ingest and post_seal return a result value, and     *)
(* every failure is reported as a result whose status is "error".          *)
C14_TransportNeverRaises ==
    exch # "none" =>
       /\ post_raised = "none"
       /\ post_result.kind # "none"
       /\ (response.kind \in FailureKinds =>
              (post_result.kind = "dict" /\
               post_result.status = ClientText.error))

(* C15: no log record emitted while handling an ingest or seal exchange,   *)
(* by the loop or by the transport, contains the tenant key, whatever the  *)
(* server's response body, status field or raised error carries.           *)
C15_NoKeyInLogs ==
    exch_key # <<>> =>
       \A i \in 1..Len(records) : ~Contains(records[i].text, exch_key)

-----------------------------------------------------------------------------
(* Properties of normalize_telemetry (specification NormSpec) *)

(* The event types of a payload, in order *)
EventTypes(b) == [i \in 1..Len(b.events) |-> b.events[i].event_type]

(* The list of the snapshot that a category reports *)
CategoryList(r, type) ==
    CASE type = "processes" -> Get(r.processes, <<>>)
      [] type = "network" -> Get(r.network, <<>>)
      [] type = "disk_usage" -> Get(r.disks, <<>>)
      [] type = "open_ports" -> Get(r.open_ports, <<>>)

(* C17: the event types of the payload are exactly the subsequence of      *)
(* system, processes, network, disk_usage, open_ports made of system and   *)
(* of each category whose list in the snapshot is non-empty; with all four *)
(* lists empty or missing the payload has exactly one event.               *)
C17_EventTypes ==
    norm_calls >= 1 =>
       LET Kept(type) == type = "system" \/ CategoryList(snapshot, type) # <<>>
       IN  /\ EventTypes(batch) = SelectSeq(CategoryOrder, Kept)
           /\ batch.events[1].event_type = "system"
           /\ ((\A i \in 2..Len(CategoryOrder) :
                    CategoryList(snapshot, CategoryOrder[i]) = <<>>)
                 => Len(batch.events) = 1)

(* A payload of three events from a snapshot whose processes list is empty *)
(* and whose network key is missing                                        *)
C17_Witness ==
    /\ norm_calls >= 1
    /\ snapshot.processes = Entry(TRUE, <<>>)
    /\ ~snapshot.network.has
    /\ EventTypes(batch) = <<"system", "disk_usage", "open_ports">>

(* C18: all events of one payload carry the same timestamp, which is the   *)
(* payload's own timestamp.                                                *)
C18_OneTimestamp ==
    norm_calls >= 1 =>
       \A i \in 1..Len(batch.events) : batch.events[i].timestamp = batch.timestamp

(* A payload of five events, made when the clock had moved on *)
C18_Witness ==
    /\ norm_calls >= 1
    /\ Len(batch.events) = 5
    /\ batch.timestamp # IsoNow(0)

(* A payload without the timestamps of its events *)
Untimed(b) ==
    [i \in 1..Len(b.events) |->
        [event_type |-> b.events[i].event_type, data |-> b.events[i].data]]

(* Two calls with the same arguments agree on all but batch_id and times *)
SameContent ==
    /\ Untimed(batch) = Untimed(prev_batch)
    /\ batch.source_id = prev_batch.source_id
    /\ batch.agent_id = prev_batch.agent_id
    /\ batch.endpoint_name = prev_batch.endpoint_name

(* C19, as stated: two calls with identical arguments give payloads with   *)
(* different batch_id and different timestamp, and otherwise identical.    *)
C19_FreshIdAndTimestamp ==
    norm_calls >= 2 =>
       /\ batch.batch_id # prev_batch.batch_id
       /\ batch.timestamp # prev_batch.timestamp
       /\ SameContent

(* C19, amended: two calls with identical arguments give payloads with     *)
(* different batch_id and otherwise identical events, source_id, agent_id  *)
(* and endpoint_name; each timestamp is the wall clock reading of its      *)
(* call, so that the two are equal when the readings are.                  *)
C19_FreshId ==
    norm_calls >= 2 =>
       /\ batch.batch_id # prev_batch.batch_id
       /\ SameContent
       /\ \A b \in {batch, prev_batch} :
             \E reading \in 0..MaxWall : b.timestamp = IsoNow(reading)

(* Two calls between which the clock reading did not change: same          *)
(* timestamp, different batch_id                                           *)
C19_Witness ==
    /\ norm_calls >= 2
    /\ batch.timestamp = prev_batch.timestamp
    /\ batch.batch_id # prev_batch.batch_id
    /\ Len(batch.events) >= 2

-----------------------------------------------------------------------------
(* Properties of collect_all (specification CollectSpec) *)

(* The eleven keys of a snapshot *)
SnapshotKeys ==
    {"hostname", "os", "username", "uptime_secs", "cpu_percent", "memory",
     "ram_percent", "processes", "network", "disks", "open_ports"}

(* The key of the snapshot that a probe fills *)
ProbeKey(probe) ==
    CASE probe = "uptime" -> "uptime_secs"
      [] probe = "cpu" -> "cpu_percent"
      [] probe = "ports" -> "open_ports"
      [] OTHER -> probe

(* C20: collect_all never fails as a whole: whichever of the seven probes  *)
(* fail, by error, non-zero exit or timeout, the snapshot returned has all *)
(* eleven keys, the field of each failed probe is None or an empty list,   *)
(* and the fields of the other probes are what they are without failure.   *)
C20_CollectNeverFails ==
    collect_done =>
       /\ DOMAIN collected = SnapshotKeys
       /\ \A p \in Probes :
             IF failing[p] = "ok"
             THEN collected[ProbeKey(p)] =
                     CollectAll(collector_system, AllOk)[ProbeKey(p)]
             ELSE collected[ProbeKey(p)] \in {"none", "empty"}

-----------------------------------------------------------------------------
(* Properties of _get_cpu_usage on Linux (specification CpuSpec) *)

(* The deltas of the last call *)
IdleDelta == cpu_read[1] - cpu_before[1]

TotalDelta == cpu_read[2] - cpu_before[2]

(* C21, as stated: the first call returns 0.0 and stores its sample; every *)
(* later call returns (1 - idle_delta / total_delta) * 100 against the     *)
(* sample the previous call stored, and stores its own.                    *)
C21_DeltaEveryCall ==
    (cpu_calls >= 1 /\ cpu_read # <<>>) =>
       /\ prev_cpu_sample = cpu_read
       /\ IF cpu_calls = 1
          THEN cpu_percent = <<0>>
          ELSE /\ cpu_before # <<>>
               /\ TotalDelta # 0
               /\ cpu_percent # <<>>
               /\ cpu_percent[1] * TotalDelta
                     = 1000 * (TotalDelta - IdleDelta)

(* C21, amended: a call that reads a sample stores it; it returns 0.0 when *)
(* no sample was stored before or when total has not risen since the      *)
(* stored sample, and otherwise (1 - idle_delta / total_delta) * 100       *)
(* against the stored sample; a call that cannot read its sample returns   *)
(* None and leaves the stored sample, so that the first call reading one   *)
(* is the baseline.                                                        *)
C21_DeltaWhenTotalRises ==
    cpu_calls >= 1 =>
       IF cpu_read = <<>>
       THEN cpu_percent = <<>> /\ prev_cpu_sample = cpu_before
       ELSE /\ prev_cpu_sample = cpu_read
            /\ IF cpu_before = <<>> \/ TotalDelta <= 0
               THEN cpu_percent = <<0>>
               ELSE /\ cpu_percent # <<>>
                    /\ cpu_percent[1] * TotalDelta
                          = 1000 * (TotalDelta - IdleDelta)

(* The second call reads (1100, 2200) after (1000, 2000) and returns 50.0  *)
C21_Witness ==
    /\ cpu_calls = 2
    /\ cpu_before = <<1000, 2000>>
    /\ cpu_read = <<1100, 2200>>
    /\ cpu_percent = <<500>>
    /\ prev_cpu_sample = <<1100, 2200>>

(* C22: whatever two successive samples are, the cpu_percent returned is   *)
(* absent or lies between 0 and 100 inclusive.                             *)
C22_PercentInRange ==
    cpu_percent # <<>> => (0 <= cpu_percent[1] /\ cpu_percent[1] <= 1000)

-----------------------------------------------------------------------------
(* Properties of the listings (specification ListingSpec) *)

(* The state of a line is listening, whatever its case *)
IsListening(l) == Lower(l.state) \in {Lower(PortText.listen),
                                      Lower(PortText.listening)}

C24_AtMostTwenty ==
    tool # "none" => Len(listing) <= TopN

-----------------------------------------------------------------------------
(* Properties of the requests (specification ExchangeSpec) *)

(* The names of the headers of the last request *)
HeaderNames == {h[1] : h \in headers}

(* C25: every request that is made carries both Authorization: Bearer key *)
(* and X-API-Key: key when the tenant key is not empty, and neither of the *)
(* two when it is empty; without a key the request is sent all the same.   *)
C25_AuthHeadersTogether ==
    (exch # "none" /\ post_raised = "none") =>
       /\ response.kind # "none"
       /\ IF exch_key # <<>>
          THEN {<<"Authorization", ClientText.bearer \o exch_key>>,
                <<"X-API-Key", exch_key>>} \subseteq headers
          ELSE HeaderNames \cap {"Authorization", "X-API-Key"} = {}
       /\ \A h1, h2 \in headers : h1[1] = h2[1] => h1 = h2

(* A request made without a key that the server answered with an HTTP      *)
(* error, after one made with the same configuration                       *)
C25_Witness ==
    /\ exchanges = 2
    /\ post_raised = "none"
    /\ exch_key = <<>>
    /\ response.kind = "http"
    /\ HeaderNames = {"Content-Type"}

-----------------------------------------------------------------------------
(* Properties of main() at startup (specification MainSpec) *)

(* C26: when main() starts without a tenant key and registration gives no  *)
(* key, the process exits with status 1 and has written no PID file,       *)
(* spawned no agent and not entered the loop; with --stop, main() runs     *)
(* _stop_agent and ends without registering, spawning or writing a PID     *)
(* file (the file can only be removed, processes can only end).            *)
C26_FatalStartup ==
    [][/\ (mpc = "begin" /\ ~args.stop /\ ~tenant_key /\ ~tenant_key') =>
             /\ mpc' = "exit"
             /\ exitCode' = "1"
             /\ UNCHANGED <<pidFile, procs, childPid, loopEnd>>
       /\ (mpc = "begin" /\ args.stop) =>
             /\ mpc' = "exit"
             /\ stops' = stops + 1
             /\ UNCHANGED <<tenant_key, registered_now, childPid, loopEnd>>
             /\ pidFile' \in {pidFile, NoFile}
             /\ \A p \in Pids : procs'[p] \in {procs[p], "none"}
       /\ mpc = "exit" => UNCHANGED <<mpc, pidFile, procs, childPid>>]_vars

(* main() started without a key and without --stop, registration failed:   *)
(* exit status 1, no PID file, no child                                    *)
C26_Witness ==
    /\ mpc = "exit"
    /\ ~args.stop
    /\ ~tenant_key
    /\ exitCode = "1"
    /\ pidFile = NoFile
    /\ childPid = 0
    /\ loopEnd = "none"

-----------------------------------------------------------------------------
(* Properties of the external calls (specification JobSpec) *)

(* C27: every external call carries a timeout, so that, a timed call       *)
(* returning or failing when its timeout expires, every started cycle      *)
(* reaches its sleep step and every stop ends, even when a tool or the     *)
(* endpoint hangs.                                                         *)
C27_NoStall == (job # "none") ~> (job = "none")

-----------------------------------------------------------------------------
(* Properties of the starts (specification InstancesSpec) *)

(* C28: in the default start, however the steps of the parent and of the   *)
(* child interleave, once the child has exited through its cleanup the PID *)
(* file does not name it: no PID record outlives the loop it names.        *)
C28_NoRecordOutlivesLoop ==
    \A i \in Pids :
       (parent[i] \in {"spawned", "done"} /\ child[i] = "exited")
          => pidFile # WritePid(i)

(* The PIDs of the instances whose loop runs *)
Looping == {i \in Pids : child[i] = "loop"}

(* C29: while at least one agent loop runs (no stop command being issued), *)
(* the PID file exists and holds the PID of a running agent, also after a  *)
(* second instance was started and one of the two has exited.              *)
C29_FileNamesRunningAgent ==
    Looping # {} =>
       \E i \in Pids : procs[i] \in AgentPrograms /\ pidFile = WritePid(i)

-----------------------------------------------------------------------------
(* Properties of the termination requests (specification StopSpec) *)

(* C30: one call of _stop_agent asks the OS to terminate at most one       *)
(* process, and only the strictly positive PID it parsed from the PID      *)
(* file: a file holding zero or a negative integer leads to no request.    *)
C30_OnlyPositivePidSignalled ==
    stops >= 1 =>
       /\ Len(termReqs) <= 1
       /\ \A k \in 1..Len(termReqs) : termReqs[k] = stopPid /\ stopPid > 0

=============================================================================
